---- MODULE Spec2Model ----
(***************************************************************************)
(* A model of the mixed LaTeX/TikZ authoring tool: the Macro Normalizer    *)
(* (preprocessLatexExam), the Segmenter (parseContent), the question-block *)
(* splitter (smartSplitContent) and the App's AI-request handlers.         *)
(*                                                                         *)
(* A text is a sequence of one-character strings, so that every regular    *)
(* expression of the source is matched character by character, as the      *)
(* JavaScript engine matches it.  A position p is 1-based; a match is      *)
(* given by the position just after it, and 0 means "no match here".       *)
(***************************************************************************)
EXTENDS Integers, Sequences, FiniteSets, TLC

VARIABLES
    pc,          \* which step of a pure-function run has been taken
    text,        \* the argument of preprocessLatexExam / parseContent / smartSplitContent
    cleanText,   \* preprocessLatexExam(text)
    segments,    \* parseContent(text)
    blocks,      \* smartSplitContent(text)
    scanIndex,   \* parseContent: lastIndex, the position the scan loop has come to
    args,        \* the brace arguments the input invocation was built from
    macro,       \* the macro the input invocation was built from
    rawText,     \* App: the document text, as a sequence of the parts it is made of
    isImporting, \* App state
    isGenerating,        \* App state (question generator)
    isAdvancedMenuOpen,  \* App state
    modal,       \* App: which full-screen modal is open ("none" when none is)
                 \* (isGeneratorOpen, isWorksheetModalOpen, isTikzLibraryOpen)
    generatorPrompt,     \* App: the prompt is blank or not
    wsGenerating,        \* WorksheetGeneratorModal.isGenerating
    tikzGenerating,      \* TikzLibraryModal.isGenerating
    generatedTikz,       \* TikzLibraryModal: there is generated code in the modal
    figures,     \* the library holds a saved figure
    inflight,    \* the external calls that have been started and have not settled
    nextId,      \* the number of external calls started so far
    isRichText,  \* App state: the document text is rich markup
    importStatus,        \* App state: "" , a progress message ("busy") or "Error"
    isExporting, \* App state
    exportStyle, \* handleExport: its style argument
    fetches,     \* handleExport: the state of the image fetch of each diagram segment
    tikzImagesMap,       \* handleExport: the images stored so far, by diagram code
    katex,       \* what katex.renderToString does with each formula
    bodyContent, \* generateWordCompatibleFile: the body of the exported document
    textRuns,    \* generateWordCompatibleFile: the safeText of each text segment
    bankData,    \* the library tree in localStorage: the sequence of its grades
    addingToNodeId,      \* TikzLibraryModal state (<<>> for null)
    editingNodeId,       \* TikzLibraryModal state (<<>> for null)
    now,         \* the number of clock ticks so far (Date.now())
    isSaveBankModalOpen, \* App state
    saveMode,    \* SaveToBankModal state
    detectedQuestions,   \* SaveToBankModal state
    selectedIndices,     \* SaveToBankModal state
    selectedGrade,       \* SaveToBankModal state (<<>> for '')
    selectedChapter,     \* SaveToBankModal state (<<>> for '')
    selectedLesson,      \* SaveToBankModal state (<<>> for '')
    isSaved,     \* SaveToBankModal state
    saveCount    \* SaveToBankModal state

vars == <<pc, text, cleanText, segments, scanIndex, blocks, args, macro, rawText, isImporting,
          isGenerating, isAdvancedMenuOpen, modal, generatorPrompt, wsGenerating,
          tikzGenerating, generatedTikz, figures, inflight, nextId, isRichText, importStatus, isExporting,
          exportStyle,
          fetches, tikzImagesMap, katex, bodyContent, textRuns, bankData, addingToNodeId,
          editingNodeId, now,
          isSaveBankModalOpen, saveMode, detectedQuestions, selectedIndices,
          selectedGrade, selectedChapter, selectedLesson, isSaved, saveCount>>

textVars == <<pc, text, cleanText, segments, scanIndex, blocks, args, macro>>
appVars == <<rawText, isImporting, isGenerating, isAdvancedMenuOpen, modal,
             generatorPrompt, wsGenerating, tikzGenerating, generatedTikz, figures,
             inflight, nextId>>
docVars == <<isRichText>>
exportVars == <<isExporting, exportStyle, fetches, tikzImagesMap, katex, bodyContent,
                textRuns>>
\* The variables of the parts of the program that the text functions and the
\* AI handlers leave alone.
bankVars == <<bankData, addingToNodeId, editingNodeId, now>>
saveVars == <<isSaveBankModalOpen, saveMode, detectedQuestions, selectedIndices,
              selectedGrade, selectedChapter, selectedLesson, isSaved, saveCount>>
libraryVars == <<bankVars, saveVars>>
restVars == <<importStatus, exportVars, libraryVars>>

(***************************************************************************)
(* Characters                                                              *)
(***************************************************************************)

\* JavaScript's \s, on the characters the model's texts are made of.
IsSpace(c) == c \in {" ", "\n", "\r", "\t"}

\* JavaScript's "." matches anything but a line terminator.
IsLineTerminator(c) == c \in {"\n", "\r"}

\* A character outside ASCII is written by its code point: "U+00E2" is the one
\* character a-circumflex of "Cau", "U+00E0" the a-grave of "Bai", and so on.
\* The letters that differ in case, for the regular expressions with the i flag.
ToLower ==
    ("A" :> "a") @@ ("B" :> "b") @@ ("C" :> "c") @@ ("D" :> "d") @@ ("E" :> "e") @@
    ("F" :> "f") @@ ("G" :> "g") @@ ("H" :> "h") @@ ("I" :> "i") @@ ("J" :> "j") @@
    ("K" :> "k") @@ ("L" :> "l") @@ ("M" :> "m") @@ ("N" :> "n") @@ ("O" :> "o") @@
    ("P" :> "p") @@ ("Q" :> "q") @@ ("R" :> "r") @@ ("S" :> "s") @@ ("T" :> "t") @@
    ("U" :> "u") @@ ("V" :> "v") @@ ("W" :> "w") @@ ("X" :> "x") @@ ("Y" :> "y") @@
    ("Z" :> "z") @@ ("U+00C2" :> "U+00E2") @@ ("U+00C0" :> "U+00E0") @@ ("U+1EDC" :> "U+1EDD") @@ ("U+1EA2" :> "U+1EA3") @@
    ("U+00C1" :> "U+00E1") @@ ("U+0110" :> "U+0111") @@ ("U+01AF" :> "U+01B0") @@
    ("U+1EDA" :> "U+1EDB") @@ ("U+1EAA" :> "U+1EAB") @@ ("U+1EA4" :> "U+1EA5") @@
    ("U+1EA6" :> "U+1EA7") @@ ("U+1EE4" :> "U+1EE5") @@ ("U+1EAE" :> "U+1EAF")

Fold(c) == IF c \in DOMAIN ToLower THEN ToLower[c] ELSE c

\* The literal lit stands in s at position p (case-sensitive).
StartsWithAt(s, p, lit) ==
    /\ p >= 1
    /\ p + Len(lit) - 1 <= Len(s)
    /\ \A k \in 1..Len(lit) : s[p + k - 1] = lit[k]

\* The same under the i flag.
StartsWithAtI(s, p, lit) ==
    /\ p >= 1
    /\ p + Len(lit) - 1 <= Len(s)
    /\ \A k \in 1..Len(lit) : Fold(s[p + k - 1]) = Fold(lit[k])

\* The leftmost position at or after p that holds one of the characters cs,
\* or 0: where a pattern that starts with one of them is tried next.
NextOf(s, p, cs) ==
    LET at == {i \in p..Len(s) : s[i] \in cs}
    IN  IF at = {} THEN 0 ELSE CHOOSE i \in at : \A j \in at : i <= j

\* \s* from p: the position of the first character that is not white space.
RECURSIVE SkipSpaces(_, _)
SkipSpaces(s, p) ==
    IF p <= Len(s) /\ IsSpace(s[p]) THEN SkipSpaces(s, p + 1) ELSE p

\* .* from p: the position of the next line terminator, or the end.
RECURSIVE SkipLine(_, _)
SkipLine(s, p) ==
    IF p <= Len(s) /\ ~IsLineTerminator(s[p]) THEN SkipLine(s, p + 1) ELSE p

\* String.prototype.slice(from) on 1-based positions: the characters p..Len(s).
SliceFrom(s, p) == SubSeq(s, p, Len(s))

\* The characters p..q-1.
Slice(s, p, q) == SubSeq(s, p, q - 1)

(***************************************************************************)
(* The words the regular expressions spell out                             *)
(***************************************************************************)

K_begin == <<"\\", "b", "e", "g", "i", "n">>
K_end == <<"\\", "e", "n", "d">>
K_ex == <<"{", "e", "x", "}">>
K_tikzpicture == <<"{", "t", "i", "k", "z", "p", "i", "c", "t", "u", "r", "e", "}">>
K_Opensolutionfile ==
    <<"\\", "O", "p", "e", "n", "s", "o", "l", "u", "t", "i", "o", "n", "f", "i", "l", "e">>
K_Closesolutionfile ==
    <<"\\", "C", "l", "o", "s", "e", "s", "o", "l", "u", "t", "i", "o", "n", "f", "i", "l", "e">>
K_setcounter == <<"\\", "s", "e", "t", "c", "o", "u", "n", "t", "e", "r">>
K_noindent == <<"\\", "n", "o", "i", "n", "d", "e", "n", "t">>
K_True == <<"\\", "T", "r", "u", "e">>
K_choice == <<"\\", "c", "h", "o", "i", "c", "e">>
K_choiceTF == <<"\\", "c", "h", "o", "i", "c", "e", "T", "F">>
K_shortans == <<"\\", "s", "h", "o", "r", "t", "a", "n", "s">>
K_textit == <<"\\", "t", "e", "x", "t", "i", "t">>
K_LoiGiaiArg == <<"{", "L", "U+1EDD", "i", " ", "g", "i", "U+1EA3", "i", ".", "}">>
K_loigiai == <<"\\", "l", "o", "i", "g", "i", "a", "i">>

\* The replacement texts.
R_newline == <<"\n">>
R_LoiGiai ==
    <<"\n", "\n", "*", "*", "L", "U+1EDD", "i", " ", "g", "i", "U+1EA3", "i", ".", "*", "*">>
R_DapAnNgan ==
    <<"\n", "\n", "*", "*", "U+0110", "U+00E1", "p", " ", "U+00E1", "n", " ", "n", "g", "U+1EAF", "n", ":",
      "*", "*", " ">>
R_gap == <<" ", " ", " ", " ">>

(***************************************************************************)
(* Macro Normalizer: preprocessLatexExam                                   *)
(***************************************************************************)

\* {[^{}]*} at p: the position after the closing brace, or 0.
RECURSIVE GroupEnd(_, _)
GroupEnd(s, p) ==
    IF p > Len(s) THEN 0
    ELSE IF s[p] = "}" THEN p + 1
    ELSE IF s[p] = "{" THEN 0
    ELSE GroupEnd(s, p + 1)

\* (?:[^{}]|{[^{}]*})* from p: where the greedy repetition stops.  The two
\* alternatives start with different characters and a group is closed by the
\* first brace after its opening one, so the repetition can be read in one way only.
RECURSIVE ArgContentEnd(_, _)
ArgContentEnd(s, p) ==
    IF p > Len(s) THEN p
    ELSE IF s[p] = "}" THEN p
    ELSE IF s[p] = "{"
         THEN LET q == GroupEnd(s, p + 1) IN IF q = 0 THEN p ELSE ArgContentEnd(s, q)
    ELSE ArgContentEnd(s, p + 1)

\* From p, inside d open braces: the position after the brace that closes the
\* outermost one, or 0.
RECURSIVE BalancedEnd(_, _, _)
BalancedEnd(s, p, d) ==
    IF p > Len(s) THEN 0
    ELSE IF s[p] = "{" THEN BalancedEnd(s, p + 1, d + 1)
    ELSE IF s[p] = "}" THEN IF d = 1 THEN p + 1 ELSE BalancedEnd(s, p + 1, d - 1)
    ELSE BalancedEnd(s, p + 1, d)

\* A mutant of MatchArg: a brace argument with braces nested to any depth.
MatchArgBalanced(s, p) ==
    IF p <= Len(s) /\ s[p] = "{" THEN BalancedEnd(s, p + 1, 1) ELSE 0

\* A mutant of MatchArg: \{([^{}]*)\}, an argument with no nested braces.
MatchArgFlat(s, p) ==
    IF p <= Len(s) /\ s[p] = "{" THEN GroupEnd(s, p + 1) ELSE 0

\* \{((?:[^{}]|{[^{}]*})*)\} at p: the position after the argument, or 0.
MatchArg(s, p) ==
    IF p <= Len(s) /\ s[p] = "{"
    THEN LET e == ArgContentEnd(s, p + 1)
         IN  IF e <= Len(s) /\ s[e] = "}" THEN e + 1 ELSE 0
    ELSE 0

\* n arguments from p, each after \s*: [end |-> the position after the last one
\* (0: no match), caps |-> the captured argument texts].
RECURSIVE MatchArgs(_, _, _)
MatchArgs(s, p, n) ==
    IF n = 0 THEN [end |-> p, caps |-> <<>>]
    ELSE LET q == SkipSpaces(s, p)
             e == MatchArg(s, q)
         IN  IF e = 0 THEN [end |-> 0, caps |-> <<>>]
             ELSE LET rest == MatchArgs(s, e, n - 1)
                  IN  IF rest.end = 0 THEN rest
                      ELSE [end |-> rest.end,
                            caps |-> <<Slice(s, q + 1, e - 1)>> \o rest.caps]

\* The rewrite rules, in the order preprocessLatexExam applies them.
Rules == <<"beginEx", "endEx", "solutionfile", "setcounter", "noindent", "True",
           "choice", "choiceTF", "shortans", "loigiai">>

\* The arity of the macro a rule rewrites.
Arity(r) == IF r = "shortans" THEN 1 ELSE 4

\* The word a macro rule starts with.
MacroWord(r) ==
    CASE r = "choice" -> K_choice
      [] r = "choiceTF" -> K_choiceTF
      [] r = "shortans" -> K_shortans

\* word\s*\{ex\} at p, under the i flag (word is \begin or \end): the end, or 0.
MatchExTag(word, s, p) ==
    IF StartsWithAtI(s, p, word)
    THEN LET q == SkipSpaces(s, p + Len(word))
         IN  IF StartsWithAtI(s, q, K_ex) THEN q + Len(K_ex) ELSE 0
    ELSE 0

\* Rule r's regular expression at position p: [end |-> the position after the
\* match (0: no match at p), caps |-> its captured groups].
MatchRule(r, s, p) ==
    LET no == [end |-> 0, caps |-> <<>>]
        yes(e) == [end |-> e, caps |-> <<>>]
    IN
    IF p > Len(s) \/ s[p] # "\\" THEN no
    ELSE CASE r = "beginEx" ->
             \* /\\begin\s*\{ex\}%?/gi
             LET e == MatchExTag(K_begin, s, p)
             IN  IF e = 0 THEN no
                 ELSE IF e <= Len(s) /\ s[e] = "%" THEN yes(e + 1) ELSE yes(e)
      [] r = "endEx" ->
             \* /\\end\s*\{ex\}/gi
             LET e == MatchExTag(K_end, s, p) IN IF e = 0 THEN no ELSE yes(e)
      [] r = "solutionfile" ->
             \* /\\(Open|Close)solutionfile.*/gi
             IF StartsWithAtI(s, p, K_Opensolutionfile)
             THEN yes(SkipLine(s, p + Len(K_Opensolutionfile)))
             ELSE IF StartsWithAtI(s, p, K_Closesolutionfile)
             THEN yes(SkipLine(s, p + Len(K_Closesolutionfile)))
             ELSE no
      [] r = "setcounter" ->
             \* /\\setcounter.*/gi
             IF StartsWithAtI(s, p, K_setcounter)
             THEN yes(SkipLine(s, p + Len(K_setcounter))) ELSE no
      [] r = "noindent" ->
             \* /\\noindent/gi
             IF StartsWithAtI(s, p, K_noindent) THEN yes(p + Len(K_noindent)) ELSE no
      [] r = "True" ->
             \* /\\True\s*/g
             IF StartsWithAt(s, p, K_True)
             THEN yes(SkipSpaces(s, p + Len(K_True))) ELSE no
      [] r \in {"choice", "choiceTF", "shortans"} ->
             \* /\\choice\s*\{(...)\}\s*\{(...)\}\s*\{(...)\}\s*\{(...)\}/g and the like
             IF StartsWithAt(s, p, MacroWord(r))
             THEN MatchArgs(s, p + Len(MacroWord(r)), Arity(r))
             ELSE no
      [] r = "loigiai" ->
             \* /(\\textit\s*\{L<U+1EDD>i gi<U+1EA3>i\.\}|\\loigiai)/gi
             IF StartsWithAtI(s, p, K_textit)
                /\ StartsWithAtI(s, SkipSpaces(s, p + Len(K_textit)), K_LoiGiaiArg)
             THEN yes(SkipSpaces(s, p + Len(K_textit)) + Len(K_LoiGiaiArg))
             ELSE IF StartsWithAtI(s, p, K_loigiai)
             THEN yes(p + Len(K_loigiai))
             ELSE no

\* What rule r puts in the place of a match with captured groups c.
Replacement(r, c) ==
    CASE r \in {"beginEx", "endEx"} -> R_newline
      [] r \in {"solutionfile", "setcounter", "noindent", "True"} -> <<>>
      [] r = "choice" ->
             \* `\nA. ${a}    B. ${b}    C. ${c}    D. ${d}\n`
             <<"\n", "A", ".", " ">> \o c[1] \o R_gap \o <<"B", ".", " ">> \o c[2]
             \o R_gap \o <<"C", ".", " ">> \o c[3] \o R_gap \o <<"D", ".", " ">> \o c[4]
             \o <<"\n">>
      [] r = "choiceTF" ->
             \* `\na) ${a}\nb) ${b}\nc) ${c}\nd) ${d}\n`
             <<"\n", "a", ")", " ">> \o c[1] \o <<"\n", "b", ")", " ">> \o c[2]
             \o <<"\n", "c", ")", " ">> \o c[3] \o <<"\n", "d", ")", " ">> \o c[4]
             \o <<"\n">>
      [] r = "shortans" -> R_DapAnNgan \o c[1] \o <<"\n">>
      [] r = "loigiai" -> R_LoiGiai

\* The leftmost position at or after p where rule r's pattern matches, or 0.
\* Every rule's pattern starts with a backslash.
RECURSIVE NextRuleMatch(_, _, _)
NextRuleMatch(r, s, p) ==
    LET q == NextOf(s, p, {"\\"})
    IN  IF q = 0 THEN 0
        ELSE IF MatchRule(r, s, q).end # 0 THEN q
        ELSE NextRuleMatch(r, s, q + 1)

\* String.prototype.replace with a g-flag pattern, from position p on: the
\* matches are found left to right, each search starting where the last match
\* ended, and a replacement is never scanned again.
RECURSIVE ReplaceFrom(_, _, _)
ReplaceFrom(r, s, p) ==
    LET Replaced(i, m) ==
            IF i = 0 THEN SliceFrom(s, p)
            ELSE Slice(s, p, i) \o Replacement(r, m.caps) \o ReplaceFrom(r, s, m.end)
        At(i) == Replaced(i, MatchRule(r, s, i))
    IN  At(NextRuleMatch(r, s, p))

\* One line of preprocessLatexExam: processed = processed.replace(regex, ...).
ApplyRule(r, s) == ReplaceFrom(r, s, 1)

\* The lines of preprocessLatexExam one after the other: the result of a line
\* is computed before the next line is run on it.
RECURSIVE ApplyRules(_, _)
ApplyRules(rs, s) ==
    IF rs = <<>> THEN s
    ELSE LET processed == ApplyRule(Head(rs), s)
         IN  IF Len(processed) >= 0 THEN ApplyRules(Tail(rs), processed) ELSE <<>>

\* preprocessLatexExam(text)
PreprocessLatexExam(s) == ApplyRules(Rules, s)

(***************************************************************************)
(* Segmenter: parseContent                                                 *)
(***************************************************************************)

\* equation|align|gather|flalign|alignat|multline|cases
EnvNames ==
    { <<"e", "q", "u", "a", "t", "i", "o", "n">>, <<"a", "l", "i", "g", "n">>,
      <<"g", "a", "t", "h", "e", "r">>, <<"f", "l", "a", "l", "i", "g", "n">>,
      <<"a", "l", "i", "g", "n", "a", "t">>, <<"m", "u", "l", "t", "l", "i", "n", "e">>,
      <<"c", "a", "s", "e", "s">> }

K_cases == <<"{", "c", "a", "s", "e", "s", "}">>

\* \{(?:equation|...|cases)\*?\} at p: the position after the brace, or 0.
MatchEnvBrace(s, p) ==
    IF p <= Len(s) /\ s[p] = "{"
       /\ \E n \in EnvNames :
             /\ StartsWithAt(s, p + 1, n)
             /\ \/ StartsWithAt(s, p + 1 + Len(n), <<"}">>)
                \/ StartsWithAt(s, p + 1 + Len(n), <<"*", "}">>)
    THEN LET n == CHOOSE n \in EnvNames :
                     /\ StartsWithAt(s, p + 1, n)
                     /\ \/ StartsWithAt(s, p + 1 + Len(n), <<"}">>)
                        \/ StartsWithAt(s, p + 1 + Len(n), <<"*", "}">>)
         IN  IF s[p + 1 + Len(n)] = "*" THEN p + Len(n) + 3 ELSE p + Len(n) + 2
    ELSE 0

\* word\s*\{tikzpicture\} at p (word is \begin or \end): the end, or 0.
MatchTikzTag(word, s, p) ==
    IF StartsWithAt(s, p, word)
    THEN LET q == SkipSpaces(s, p + Len(word))
         IN  IF StartsWithAt(s, q, K_tikzpicture) THEN q + Len(K_tikzpicture) ELSE 0
    ELSE 0

\* word\s*\{(?:equation|...)\*?\} at p: the end, or 0.
MatchEnvTag(word, s, p) ==
    IF StartsWithAt(s, p, word)
    THEN MatchEnvBrace(s, SkipSpaces(s, p + Len(word)))
    ELSE 0

\* The closing delimiter of each alternative, at p: the end, or 0.
MatchClose(a, s, p) ==
    CASE a = "tikz" -> MatchTikzTag(K_end, s, p)
      [] a = "env" -> MatchEnvTag(K_end, s, p)
      [] a = "dollars" -> IF StartsWithAt(s, p, <<"$", "$">>) THEN p + 2 ELSE 0
      [] a = "bracket" -> IF StartsWithAt(s, p, <<"\\", "]">>) THEN p + 2 ELSE 0
      [] a = "paren" -> IF StartsWithAt(s, p, <<"\\", ")">>) THEN p + 2 ELSE 0

\* [\s\S]*? and then the closing delimiter: the end of the first closing
\* delimiter that starts at p or later, or 0 when there is none.  Every
\* closing delimiter starts with a backslash or a dollar sign.
RECURSIVE LazyUntilClose(_, _, _)
LazyUntilClose(a, s, p) ==
    LET q == NextOf(s, p, {"\\", "$"})
    IN  IF q = 0 THEN 0
        ELSE LET e == MatchClose(a, s, q)
             IN  IF e # 0 THEN e ELSE LazyUntilClose(a, s, q + 1)

\* [^$]*?\$ from p: the position after the next dollar sign, or 0.
NextDollar(s, p) ==
    LET q == NextOf(s, p, {"$"}) IN IF q = 0 THEN 0 ELSE q + 1

\* The alternatives of parseContent's regular expression, in its order.
Alternatives == <<"tikz", "env", "dollars", "bracket", "paren", "dollar">>

\* A mutant of MatchAlternative: the single-dollar alternative without its
\* lookbehind, \$[^$]*?\$.
MatchAlternativeNoLookbehind(a, s, p) ==
    CASE a = "tikz" ->
             LET b == MatchTikzTag(K_begin, s, p)
             IN  IF b = 0 THEN 0 ELSE LazyUntilClose(a, s, b)
      [] a = "env" ->
             LET b == MatchEnvTag(K_begin, s, p)
             IN  IF b = 0 THEN 0 ELSE LazyUntilClose(a, s, b)
      [] a = "dollars" ->
             IF StartsWithAt(s, p, <<"$", "$">>) THEN LazyUntilClose(a, s, p + 2) ELSE 0
      [] a = "bracket" ->
             IF StartsWithAt(s, p, <<"\\", "[">>) THEN LazyUntilClose(a, s, p + 2) ELSE 0
      [] a = "paren" ->
             IF StartsWithAt(s, p, <<"\\", "(">>) THEN LazyUntilClose(a, s, p + 2) ELSE 0
      [] a = "dollar" ->
             IF s[p] = "$" THEN NextDollar(s, p + 1) ELSE 0

\* Alternative a at position p: the position after the match, or 0.
MatchAlternative(a, s, p) ==
    CASE a = "tikz" ->
             \* \\begin\s*\{tikzpicture\}[\s\S]*?\\end\s*\{tikzpicture\}
             LET b == MatchTikzTag(K_begin, s, p)
             IN  IF b = 0 THEN 0 ELSE LazyUntilClose(a, s, b)
      [] a = "env" ->
             \* \\begin\s*\{(?:...)\*?\}[\s\S]*?\\end\s*\{(?:...)\*?\}
             LET b == MatchEnvTag(K_begin, s, p)
             IN  IF b = 0 THEN 0 ELSE LazyUntilClose(a, s, b)
      [] a = "dollars" ->
             \* \$\$[\s\S]*?\$\$
             IF StartsWithAt(s, p, <<"$", "$">>) THEN LazyUntilClose(a, s, p + 2) ELSE 0
      [] a = "bracket" ->
             \* \\\[[\s\S]*?\\\]
             IF StartsWithAt(s, p, <<"\\", "[">>) THEN LazyUntilClose(a, s, p + 2) ELSE 0
      [] a = "paren" ->
             \* \\\([\s\S]*?\\\)
             IF StartsWithAt(s, p, <<"\\", "(">>) THEN LazyUntilClose(a, s, p + 2) ELSE 0
      [] a = "dollar" ->
             \* (?<!\\)\$[^$]*?\$
             IF s[p] = "$" /\ (p = 1 \/ s[p - 1] # "\\")
             THEN NextDollar(s, p + 1) ELSE 0

\* The first alternative, in the order of the pattern, that matches at p:
\* [index |-> p, end |-> the position after the match, alt |-> the alternative],
\* or index 0 when none matches at p.
RECURSIVE FirstAlternative(_, _, _)
FirstAlternative(as, s, p) ==
    IF as = <<>> THEN [index |-> 0, end |-> 0, alt |-> "none"]
    ELSE LET Matched(e) ==
                 IF e # 0 THEN [index |-> p, end |-> e, alt |-> Head(as)]
                 ELSE FirstAlternative(Tail(as), s, p)
         IN  Matched(MatchAlternative(Head(as), s, p))

\* The pattern at position p.  Every alternative starts with a backslash or a
\* dollar sign.
MatchAt(s, p) ==
    IF s[p] \notin {"\\", "$"} THEN [index |-> 0, end |-> 0, alt |-> "none"]
    ELSE FirstAlternative(Alternatives, s, p)

\* regex.exec(cleanText) with regex.scanIndex = from: the leftmost position at
\* or after from where the pattern matches, and the match there.
RECURSIVE Exec(_, _)
Exec(s, from) ==
    LET p == NextOf(s, from, {"\\", "$"})
    IN  IF p = 0 THEN [index |-> 0, end |-> 0, alt |-> "none"]
        ELSE LET Found(m) == IF m.index # 0 THEN m ELSE Exec(s, p + 1)
             IN  Found(MatchAt(s, p))

\* fullMatch.slice(n, -n)
SliceBoth(m, n) == IF Len(m) - n < n + 1 THEN <<>> ELSE SubSeq(m, n + 1, Len(m) - n)

\* /^\\begin\s*\{(?:equation|align|gather|flalign|alignat|multline)/.test(fullMatch)
StartsDisplayEnv(m) ==
    /\ StartsWithAt(m, 1, K_begin)
    /\ LET q == SkipSpaces(m, 1 + Len(K_begin))
       IN  /\ StartsWithAt(m, q, <<"{">>)
           /\ \E n \in EnvNames \ {<<"c", "a", "s", "e", "s">>} : StartsWithAt(m, q + 1, n)

\* /^\\begin\s*\{cases\}/.test(fullMatch)
StartsCases(m) ==
    /\ StartsWithAt(m, 1, K_begin)
    /\ StartsWithAt(m, SkipSpaces(m, 1 + Len(K_begin)), K_cases)

\* A mutant of SegmentOf: the single-dollar branch keeps its closing delimiter.
SegmentOfKeepsDollar(m) ==
    IF MatchTikzTag(K_begin, m, 1) # 0
    THEN [type |-> "tikz", content |-> m, displayMode |-> TRUE]
    ELSE IF StartsWithAt(m, 1, <<"$", "$">>)
    THEN [type |-> "math", content |-> SliceBoth(m, 2), displayMode |-> TRUE]
    ELSE IF StartsWithAt(m, 1, <<"\\", "[">>)
    THEN [type |-> "math", content |-> SliceBoth(m, 2), displayMode |-> TRUE]
    ELSE IF StartsWithAt(m, 1, <<"\\", "(">>)
    THEN [type |-> "math", content |-> SliceBoth(m, 2), displayMode |-> FALSE]
    ELSE IF StartsWithAt(m, 1, <<"$">>)
    THEN [type |-> "math", content |-> SliceFrom(m, 2), displayMode |-> FALSE]
    ELSE [type |-> "math", content |-> m,
          displayMode |-> StartsDisplayEnv(m) \/ StartsCases(m)]

\* The segment pushed for a match: the classification of fullMatch.
SegmentOf(m) ==
    IF MatchTikzTag(K_begin, m, 1) # 0
    THEN [type |-> "tikz", content |-> m, displayMode |-> TRUE]
    ELSE IF StartsWithAt(m, 1, <<"$", "$">>)
    THEN [type |-> "math", content |-> SliceBoth(m, 2), displayMode |-> TRUE]
    ELSE IF StartsWithAt(m, 1, <<"\\", "[">>)
    THEN [type |-> "math", content |-> SliceBoth(m, 2), displayMode |-> TRUE]
    ELSE IF StartsWithAt(m, 1, <<"\\", "(">>)
    THEN [type |-> "math", content |-> SliceBoth(m, 2), displayMode |-> FALSE]
    ELSE IF StartsWithAt(m, 1, <<"$">>)
    THEN [type |-> "math", content |-> SliceBoth(m, 1), displayMode |-> FALSE]
    ELSE [type |-> "math", content |-> m,
          displayMode |-> StartsDisplayEnv(m) \/ StartsCases(m)]

TextSegment(c) == [type |-> "text", content |-> c]

\* A mutant of ScanFrom: the remaining text is pushed even when it is empty.
RECURSIVE ScanFromPushesEmpty(_, _)
ScanFromPushesEmpty(s, lastIndex) ==
    LET Pushed(m) ==
            IF m.index = 0
            THEN <<TextSegment(SliceFrom(s, lastIndex))>>
            ELSE (IF m.index > lastIndex
                  THEN <<TextSegment(Slice(s, lastIndex, m.index))>> ELSE <<>>)
                 \o <<SegmentOf(Slice(s, m.index, m.end))>>
                 \o ScanFromPushesEmpty(s, m.end)
    IN  Pushed(Exec(s, lastIndex))

\* The while loop of parseContent from lastIndex on, and the push of the
\* remaining text after it.
RECURSIVE ScanFrom(_, _)
ScanFrom(s, lastIndex) ==
    LET Pushed(m) ==
            IF m.index = 0
            THEN IF lastIndex <= Len(s)
                 THEN <<TextSegment(SliceFrom(s, lastIndex))>> ELSE <<>>
            ELSE (IF m.index > lastIndex
                  THEN <<TextSegment(Slice(s, lastIndex, m.index))>> ELSE <<>>)
                 \o <<SegmentOf(Slice(s, m.index, m.end))>>
                 \o ScanFrom(s, m.end)
    IN  Pushed(Exec(s, lastIndex))

\* The matches of the while loop, in order: what regex.exec returned each time.
RECURSIVE MatchesFrom(_, _)
MatchesFrom(s, lastIndex) ==
    LET Listed(m) == IF m.index = 0 THEN <<>> ELSE <<m>> \o MatchesFrom(s, m.end)
    IN  Listed(Exec(s, lastIndex))

\* parseContent(text)
ParseContent(t) == ScanFrom(PreprocessLatexExam(t), 1)

(***************************************************************************)
(* Question-block splitter: smartSplitContent                              *)
(***************************************************************************)

K_Cau == <<"C", "U+00E2", "u">>
K_Bai == <<"B", "U+00E0", "i">>

\* [\dIVX] under the i flag
IsNumeral(c) ==
    Fold(c) \in {"0", "1", "2", "3", "4", "5", "6", "7", "8", "9", "i", "v", "x"}

RECURSIVE SkipNumerals(_, _)
SkipNumerals(s, p) ==
    IF p <= Len(s) /\ IsNumeral(s[p]) THEN SkipNumerals(s, p + 1) ELSE p

\* text.replace(/\r\n/g, '\n')
RECURSIVE NormalizeLineEndings(_)
NormalizeLineEndings(s) ==
    IF s = <<>> THEN <<>>
    ELSE IF StartsWithAt(s, 1, <<"\r", "\n">>)
    THEN <<"\n">> \o NormalizeLineEndings(SliceFrom(s, 3))
    ELSE <<Head(s)>> \o NormalizeLineEndings(Tail(s))

\* (?:C<U+00E2>u|B<U+00E0>i)\s+[\dIVX]+[.:] at p, under the i flag: the end, or 0.
MatchQuestionWord(s, p) ==
    IF StartsWithAtI(s, p, K_Cau) \/ StartsWithAtI(s, p, K_Bai)
    THEN LET q == SkipSpaces(s, p + 3)
             e == SkipNumerals(s, q)
         IN  IF q > p + 3 /\ e > q /\ e <= Len(s) /\ s[e] \in {".", ":"}
             THEN e + 1 ELSE 0
    ELSE 0

\* A mutant of MatchMarker: the question word is recognized anywhere, not only
\* at the start of a line.
MatchMarkerAnywhere(s, p) ==
    IF MatchExTag(K_begin, s, p) # 0 THEN MatchExTag(K_begin, s, p)
    ELSE IF s[p] = "\n" /\ MatchQuestionWord(s, p + 1) # 0
    THEN MatchQuestionWord(s, p + 1)
    ELSE MatchQuestionWord(s, p)

\* /(\\begin\s*\{ex\}|(?:\n|^)(?:C<U+00E2>u|B<U+00E0>i)\s+[\dIVX]+[.:])/gi at p: the
\* end, or 0.  Without the m flag, ^ is the start of the text only.
MatchMarker(s, p) ==
    IF MatchExTag(K_begin, s, p) # 0 THEN MatchExTag(K_begin, s, p)
    ELSE IF s[p] = "\n" /\ MatchQuestionWord(s, p + 1) # 0
    THEN MatchQuestionWord(s, p + 1)
    ELSE IF p = 1 THEN MatchQuestionWord(s, p)
    ELSE 0

\* The while loop of smartSplitContent from position p on: the 0-based indices
\* it pushes.
RECURSIVE MarkerIndices(_, _)
MarkerIndices(s, p) ==
    IF p > Len(s) THEN <<>>
    ELSE LET e == MatchMarker(s, p)
         IN  IF e = 0 THEN MarkerIndices(s, p + 1)
             ELSE \* let idx = match.index; if (normalized[idx] === '\n') idx++;
                  <<(IF s[p] = "\n" THEN p ELSE p - 1)>> \o MarkerIndices(s, e)

\* String.prototype.trim
RECURSIVE TrimStart(_)
TrimStart(s) == IF s # <<>> /\ IsSpace(Head(s)) THEN TrimStart(Tail(s)) ELSE s

RECURSIVE TrimEnd(_)
TrimEnd(s) ==
    IF s # <<>> /\ IsSpace(s[Len(s)]) THEN TrimEnd(SubSeq(s, 1, Len(s) - 1)) ELSE s

Trim(s) == TrimEnd(TrimStart(s))

\* normalized.substring(start, end), on 0-based indices
Substring(s, start, end) == SubSeq(s, start + 1, end)

\* The for loop of smartSplitContent from i on (i is 1-based here).
RECURSIVE BlocksFrom(_, _, _)
BlocksFrom(s, indices, i) ==
    IF i > Len(indices) THEN <<>>
    ELSE LET start == indices[i]
             \* indices[i + 1] ? indices[i + 1] : normalized.length
             end == IF i + 1 <= Len(indices) /\ indices[i + 1] # 0
                    THEN indices[i + 1] ELSE Len(s)
             qContent == Trim(Substring(s, start, end))
         IN  (IF Len(qContent) > 0 THEN <<qContent>> ELSE <<>>)
             \o BlocksFrom(s, indices, i + 1)

\* A mutant of SmartSplitContent: the fallback returns the normalized text.
SmartSplitContentNormalizedFallback(t) ==
    LET normalized == NormalizeLineEndings(t)
        indices == MarkerIndices(normalized, 1)
    IN  IF Len(indices) = 0 THEN <<normalized>>
        ELSE BlocksFrom(normalized, indices, 1)

\* smartSplitContent(text)
SmartSplitContent(t) ==
    LET normalized == NormalizeLineEndings(t)
        indices == MarkerIndices(normalized, 1)
    IN  IF Len(indices) = 0 THEN <<t>>
        ELSE BlocksFrom(normalized, indices, 1)

(***************************************************************************)
(* Inputs                                                                  *)
(***************************************************************************)

\* The texts given to parseContent are made of at most MaxPieces pieces, and
\* those given to smartSplitContent of at most MaxLines pieces.
MaxPieces == 3
MaxLines == 4
\* An invocation given to the Normalizer has at most MaxExtraArgs brace
\* arguments more than its macro's arity.
MaxExtraArgs == 1

\* All texts made of at most n pieces of P.
RECURSIVE TextsOf(_, _)
TextsOf(P, n) ==
    IF n = 0 THEN {<<>>}
    ELSE LET T == TextsOf(P, n - 1) IN T \cup {t \o q : t \in T, q \in P}

TikzBlock == K_begin \o K_tikzpicture \o <<"x">> \o K_end \o K_tikzpicture
AlignBlock ==
    K_begin \o <<"{", "a", "l", "i", "g", "n", "}">> \o <<"x">>
    \o K_end \o <<"{", "a", "l", "i", "g", "n", "}">>

BracketBlock == <<"\\", "[", "x", "\\", "]">>

SegmenterPieces ==
    { <<"$">>, <<"$", "$">>, <<"\\">>, <<"x">>, <<"\\", "(">>, <<"\\", ")">>,
      TikzBlock, AlignBlock, BracketBlock, K_noindent }

\* "Price: \$5 \$10"
PriceText ==
    <<"P", "r", "i", "c", "e", ":", " ", "\\", "$", "5", " ", "\\", "$", "1", "0">>

SegmenterTexts == TextsOf(SegmenterPieces, MaxPieces) \cup {PriceText}

Cau1 == K_Cau \o <<" ", "1", ":">>
Cau2 == K_Cau \o <<" ", "2", ":">>
BaiII == K_Bai \o <<" ", "I", "I", ".">>

SplitterPieces ==
    { Cau1, Cau2, BaiII, K_begin \o K_ex, <<"x">>, <<" ">>, <<"\n">>, <<"\r", "\n">> }

SplitterTexts == TextsOf(SplitterPieces, MaxLines)

\* The argument texts an invocation is built from: plain, with one level of
\* nested braces, with two levels, with a \True mark, with a \shortans or a
\* \choice invocation inside, and with a macro inside two levels of braces.
PlainArg == <<"a">>
NestedArg == <<"x", "{", "y", "}", "z">>
DeepArg == <<"{", "{", "c", "}", "}">>
MarkedArg == K_True \o <<" ", "t">>
MacroArg == K_shortans \o <<"{", "s", "}">>
ChoiceArg == K_choice \o <<"{", "p", "}", "{", "q", "}", "{", "r", "}", "{", "s", "}">>
DeepMacroArg == <<"{", "{">> \o MacroArg \o <<"}", "}">>

ArgTexts ==
    {PlainArg, NestedArg, DeepArg, MarkedArg, MacroArg, ChoiceArg, DeepMacroArg}

Macros == {"choice", "choiceTF", "shortans"}

\* The sequences of at most n argument texts of which all but two, at most,
\* are plain.
ArgLists(n) ==
    UNION { LET plain == [i \in 1..k |-> PlainArg]
            IN  {plain} \cup { [plain EXCEPT ![i] = a, ![j] = b] :
                                 i \in 1..k, j \in 1..k, a \in ArgTexts, b \in ArgTexts }
            : k \in 0..n }

\* The brace arguments as, each after the separator sep.
RECURSIVE Braced(_, _)
Braced(as, sep) ==
    IF as = <<>> THEN <<>>
    ELSE sep \o <<"{">> \o Head(as) \o <<"}">> \o Braced(Tail(as), sep)

\* The invocation of macro m with the arguments as.
Invocation(m, as, sep) == MacroWord(m) \o Braced(as, sep)

(***************************************************************************)
(* The functions, run once on an input                                     *)
(***************************************************************************)

\* A BankNode with no question and no figure in it: an id is the sequence of
\* the parts it is made of, children the sequence of the nodes it holds (<<>>
\* also for a node that has no children field).
Node(id, title, type, children) ==
    [id |-> id, title |-> title, type |-> type, children |-> children,
     questions |-> <<>>, figures |-> <<>>]

\* DEFAULT_STRUCTURE, with one grade, one chapter in it and one lesson in that.
DEFAULT_STRUCTURE ==
    << Node(<<"grade_10">>, "Toan Lop 10", "grade",
            << Node(<<"g10_c1">>, "Chuong I", "chapter",
                    << Node(<<"g10_c1_l1">>, "Bai 1", "lesson", <<>>) >>) >>) >>

\* The library as it is when nothing has been stored, and the two modals that
\* work on it as constructed.
LibraryIdle ==
    /\ bankData = DEFAULT_STRUCTURE
    /\ addingToNodeId = <<>>
    /\ editingNodeId = <<>>
    /\ now = 0
    /\ isSaveBankModalOpen = FALSE
    /\ saveMode = "split"
    /\ detectedQuestions = <<>>
    /\ selectedIndices = {}
    /\ selectedGrade = <<>>
    /\ selectedChapter = <<>>
    /\ selectedLesson = <<>>
    /\ isSaved = FALSE
    /\ saveCount = 0

\* No export has been started.
ExportIdle ==
    /\ isExporting = FALSE
    /\ exportStyle = "standard"
    /\ fetches = <<>>
    /\ tikzImagesMap = <<>>
    /\ katex = <<>>
    /\ bodyContent = <<>>
    /\ textRuns = <<>>

\* The App as constructed: the document is the sample exam.
AppIdle ==
    /\ LibraryIdle
    /\ isRichText = FALSE
    /\ importStatus = ""
    /\ ExportIdle
    /\ rawText = <<"sample">>
    /\ isImporting = FALSE
    /\ isGenerating = FALSE
    /\ isAdvancedMenuOpen = FALSE
    /\ modal = "none"
    /\ generatorPrompt = "blank"
    /\ wsGenerating = FALSE
    /\ tikzGenerating = FALSE
    /\ generatedTikz = FALSE
    /\ figures = FALSE
    /\ inflight = {}
    /\ nextId = 0

NoResult ==
    /\ pc = "input"
    /\ cleanText = <<>>
    /\ segments = <<>>
    /\ blocks = <<>>
    /\ scanIndex = 1

\* parseContent is called on a text.
SegmenterInit ==
    /\ text \in SegmenterTexts
    /\ args = <<>>
    /\ macro = "none"
    /\ NoResult
    /\ AppIdle

\* const cleanText = preprocessLatexExam(text); ...; return segments
ParseContentStep ==
    /\ pc = "input"
    /\ cleanText' = PreprocessLatexExam(text)
    /\ segments' = ParseContent(text)
    /\ pc' = "parsed"
    /\ UNCHANGED <<text, scanIndex, blocks, args, macro>>
    /\ UNCHANGED appVars
    /\ UNCHANGED docVars
    /\ UNCHANGED restVars

SegmenterNext == ParseContentStep

SegmenterSpec == SegmenterInit /\ [][SegmenterNext]_vars

\* smartSplitContent is called on a text.
SplitterInit ==
    /\ text \in SplitterTexts
    /\ args = <<>>
    /\ macro = "none"
    /\ NoResult
    /\ AppIdle

SmartSplitContentStep ==
    /\ pc = "input"
    /\ blocks' = SmartSplitContent(text)
    /\ pc' = "split"
    /\ UNCHANGED <<text, cleanText, segments, scanIndex, args, macro>>
    /\ UNCHANGED appVars
    /\ UNCHANGED docVars
    /\ UNCHANGED restVars

SplitterNext == SmartSplitContentStep

SplitterSpec == SplitterInit /\ [][SplitterNext]_vars

\* preprocessLatexExam is called on one macro invocation.
NormalizerInit ==
    /\ macro \in Macros
    /\ args \in ArgLists(Arity(macro) + MaxExtraArgs)
    /\ \E sep \in {<<>>, <<" ">>} : text = Invocation(macro, args, sep)
    /\ NoResult
    /\ AppIdle

\* preprocessLatexExam(text)
PreprocessStep ==
    /\ pc = "input"
    /\ cleanText' = PreprocessLatexExam(text)
    /\ pc' = "normalized"
    /\ UNCHANGED <<text, segments, scanIndex, blocks, args, macro>>
    /\ UNCHANGED appVars
    /\ UNCHANGED docVars
    /\ UNCHANGED restVars

\* preprocessLatexExam is called on its own result.
PreprocessAgainStep ==
    /\ pc = "normalized"
    /\ text' = cleanText
    /\ cleanText' = PreprocessLatexExam(cleanText)
    /\ pc' = "renormalized"
    /\ UNCHANGED <<segments, scanIndex, blocks, args, macro>>
    /\ UNCHANGED appVars
    /\ UNCHANGED docVars
    /\ UNCHANGED restVars

\* The one line of preprocessLatexExam that rewrites the macro of the input.
MacroRuleStep ==
    /\ pc = "input"
    /\ cleanText' = ApplyRule(macro, text)
    /\ pc' = "ruled"
    /\ UNCHANGED <<text, segments, scanIndex, blocks, args, macro>>
    /\ UNCHANGED appVars
    /\ UNCHANGED docVars
    /\ UNCHANGED restVars

NormalizerNext == PreprocessStep \/ PreprocessAgainStep \/ MacroRuleStep

NormalizerSpec == NormalizerInit /\ [][NormalizerNext]_vars

(***************************************************************************)
(* The App: the handlers that start an AI request, and its settling        *)
(***************************************************************************)

\* At most MaxRequests external calls are started in a run.
MaxRequests == 2

TransformModes == {"SOLVE", "TRANSLATE", "FORMAT", "POLYA"}

\* The kinds of external call that are generative-AI requests made for the
\* document; "read" is the local reading of an uploaded file.
DocumentAiKinds == {"ocr", "transform", "question", "worksheet"}

\* A new external call of kind k (a timer is one of them).  content and rich
\* are the document as it is when the call is started, which is what the
\* closure of the handler holds.
NewRequest(k, mode, content) ==
    [id |-> nextId + 1, kind |-> k, mode |-> mode, content |-> content,
     rich |-> isRichText]

\* The page under the modals can be clicked: every modal is a fixed full-screen
\* layer above it.
PageReachable == modal = "none"

\* The texts the user leaves in the textarea: nothing, a blank, a text without
\* macros, and a text with a macro the Normalizer removes.
EditedTexts == {<<>>, <<" ">>, <<"typed">>, K_noindent \o <<"typed">>}

\* The separator written between the document and the content appended to it.
R_separator == <<"\n", "\n">>

\* prev + (prev.trim() ? "\n\n" : "") + content
AppendContent(prev, content) ==
    prev \o (IF Trim(prev) # <<>> THEN R_separator ELSE <<>>) \o content

\* prev + "\n\n" + code
AppendCode(prev, code) == prev \o R_separator \o code

\* The text an AI transform returns is made from the text it was given: it
\* stands here as that text, marked with the mode of the transform.
TransformLatexContent(content, mode) == <<mode>> \o content

\* At most MaxFigures diagrams are inserted into the document in a run.
MaxFigures == 1

FiguresIn(s) == Cardinality({p \in 1..Len(s) : StartsWithAt(s, p, TikzBlock)})

AppInit ==
    /\ pc = "app"
    /\ text = <<>>
    /\ cleanText = <<>>
    /\ segments = <<>>
    /\ blocks = <<>>
    /\ scanIndex = 1
    /\ args = <<>>
    /\ macro = "none"
    /\ AppIdle

\* The textarea's onChange: setRawText(e.target.value).  The loading overlay
\* lies over the textarea while isImporting.
EditText ==
    /\ PageReachable
    /\ ~isImporting
    /\ \E t \in EditedTexts : rawText' = t
    /\ UNCHANGED <<isImporting, isGenerating, isAdvancedMenuOpen, modal,
                   generatorPrompt, wsGenerating, tikzGenerating, generatedTikz,
                   figures, inflight, nextId>>
    /\ UNCHANGED textVars
    /\ UNCHANGED docVars
    /\ UNCHANGED restVars

\* handleReset, confirmed by the user.
HandleReset ==
    /\ PageReachable
    /\ rawText' = <<>>
    /\ isRichText' = FALSE
    /\ UNCHANGED <<isImporting, isGenerating, isAdvancedMenuOpen, modal,
                   generatorPrompt, wsGenerating, tikzGenerating, generatedTikz,
                   figures, inflight, nextId>>
    /\ UNCHANGED textVars
    /\ importStatus' = ""
    /\ UNCHANGED exportVars
    /\ UNCHANGED libraryVars

\* The rich-text button: setIsRichText(!isRichText).
ToggleRichText ==
    /\ PageReachable
    /\ isRichText' = ~isRichText
    /\ UNCHANGED appVars
    /\ UNCHANGED textVars
    /\ UNCHANGED restVars

\* The "Menu Cao Cap" button: setIsAdvancedMenuOpen(!isAdvancedMenuOpen).
ToggleAdvancedMenu ==
    /\ PageReachable
    /\ isAdvancedMenuOpen' = ~isAdvancedMenuOpen
    /\ UNCHANGED <<rawText, isImporting, isGenerating, modal, generatorPrompt,
                   wsGenerating, tikzGenerating, generatedTikz, figures, inflight,
                   nextId>>
    /\ UNCHANGED textVars
    /\ UNCHANGED docVars
    /\ UNCHANGED restVars

\* handleFileUpload up to its first await: an image or a PDF with Smart OCR is
\* sent to the AI (ai), any other file is read locally.
HandleFileUpload(ai) ==
    /\ PageReachable
    /\ ~isImporting                      \* <input type="file" disabled={isImporting}>
    /\ nextId < MaxRequests
    /\ isImporting' = TRUE
    /\ inflight' = inflight \cup
                   {NewRequest(IF ai THEN "ocr" ELSE "read", "none", rawText)}
    /\ nextId' = nextId + 1
    /\ UNCHANGED <<rawText, isGenerating, isAdvancedMenuOpen, modal, generatorPrompt,
                   wsGenerating, tikzGenerating, generatedTikz, figures>>
    /\ UNCHANGED textVars
    /\ UNCHANGED docVars
    /\ importStatus' = "busy"
    /\ UNCHANGED exportVars
    /\ UNCHANGED libraryVars

\* handleFileUpload after the await: setRawText(...) and setIsRichText(...) on
\* success (rich for a Word file read locally), the catch block on failure, and
\* the finally block.
HandleFileUploadSettled(r, ok, rich) ==
    /\ r \in inflight
    /\ r.kind \in {"ocr", "read"}
    /\ rich => r.kind = "read"
    /\ IF ok
       THEN /\ rawText' = <<r.kind>>
            /\ isRichText' = rich
       ELSE /\ ~rich
            /\ UNCHANGED <<rawText, isRichText>>
    /\ inflight' = inflight \ {r}
    /\ isImporting' = FALSE
    /\ UNCHANGED <<isGenerating, isAdvancedMenuOpen, modal, generatorPrompt,
                   wsGenerating, tikzGenerating, generatedTikz, figures, nextId>>
    /\ UNCHANGED textVars
    /\ importStatus' = (IF ok THEN "" ELSE "Error")
    /\ UNCHANGED exportVars
    /\ UNCHANGED libraryVars

\* handleAiTransform(mode) up to its await, from an item of the advanced menu.
HandleAiTransform(mode) ==
    /\ PageReachable
    /\ isAdvancedMenuOpen
    /\ Trim(rawText) # <<>>              \* if (!rawText.trim()) return;
    /\ nextId < MaxRequests
    /\ isImporting' = TRUE
    /\ isAdvancedMenuOpen' = FALSE
    /\ inflight' = inflight \cup {NewRequest("transform", mode, rawText)}
    /\ nextId' = nextId + 1
    /\ UNCHANGED <<rawText, isGenerating, modal, generatorPrompt, wsGenerating,
                   tikzGenerating, generatedTikz, figures>>
    /\ UNCHANGED textVars
    /\ UNCHANGED docVars
    /\ importStatus' = "busy"
    /\ UNCHANGED exportVars
    /\ UNCHANGED libraryVars

\* A mutant of HandleAiTransformSettled: a failed transform empties the text.
HandleAiTransformSettledClears(r, ok) ==
    /\ r \in inflight
    /\ r.kind = "transform"
    /\ rawText' = IF ok THEN TransformLatexContent(r.content, r.mode) ELSE <<>>
    /\ inflight' = inflight \ {r}
    /\ isImporting' = FALSE
    /\ UNCHANGED <<isGenerating, isAdvancedMenuOpen, modal, generatorPrompt,
                   wsGenerating, tikzGenerating, generatedTikz, figures, nextId>>
    /\ UNCHANGED textVars
    /\ UNCHANGED docVars
    /\ importStatus' = ""
    /\ UNCHANGED exportVars
    /\ UNCHANGED libraryVars

\* handleAiTransform after the await: setRawText(newText) on success, where
\* newText is made from the text the handler was started with; the catch block
\* on failure; and the finally block.
HandleAiTransformSettled(r, ok) ==
    /\ r \in inflight
    /\ r.kind = "transform"
    /\ rawText' = IF ok THEN TransformLatexContent(r.content, r.mode) ELSE rawText
    /\ inflight' = inflight \ {r}
    /\ isImporting' = FALSE
    /\ UNCHANGED <<isGenerating, isAdvancedMenuOpen, modal, generatorPrompt,
                   wsGenerating, tikzGenerating, generatedTikz, figures, nextId>>
    /\ UNCHANGED textVars
    /\ UNCHANGED docVars
    /\ importStatus' = ""
    /\ UNCHANGED exportVars
    /\ UNCHANGED libraryVars

\* handleTexToWord, from its item of the advanced menu: the conversion is left
\* to a timer of 600 ms.
HandleTexToWord ==
    /\ PageReachable
    /\ isAdvancedMenuOpen
    /\ Trim(rawText) # <<>>              \* if (!rawText.trim()) { alert(...); return; }
    /\ nextId < MaxRequests
    /\ isAdvancedMenuOpen' = FALSE
    /\ inflight' = inflight \cup {NewRequest("timer", "none", rawText)}
    /\ nextId' = nextId + 1
    /\ UNCHANGED <<rawText, isImporting, isGenerating, modal, generatorPrompt,
                   wsGenerating, tikzGenerating, generatedTikz, figures>>
    /\ UNCHANGED textVars
    /\ UNCHANGED docVars
    /\ UNCHANGED restVars

\* The timer of handleTexToWord fires: setRawText(preprocessLatexExam(rawText)),
\* with the rawText of the render the handler was created in.
TexToWordTimerFired(r) ==
    /\ r \in inflight
    /\ r.kind = "timer"
    /\ rawText' = PreprocessLatexExam(r.content)
    /\ inflight' = inflight \ {r}
    /\ UNCHANGED <<isImporting, isGenerating, isAdvancedMenuOpen, modal,
                   generatorPrompt, wsGenerating, tikzGenerating, generatedTikz,
                   figures, nextId>>
    /\ UNCHANGED textVars
    /\ UNCHANGED docVars
    /\ UNCHANGED restVars

\* The menu items that open the question generator and the worksheet modal, and
\* the header button that opens the TikZ library.
OpenModal ==
    /\ PageReachable
    /\ \/ /\ isAdvancedMenuOpen
          /\ modal' \in {"generator", "worksheet"}
          /\ isAdvancedMenuOpen' = FALSE
       \/ /\ modal' = "tikz"
          /\ UNCHANGED isAdvancedMenuOpen
    /\ UNCHANGED <<rawText, isImporting, isGenerating, generatorPrompt, wsGenerating,
                   tikzGenerating, generatedTikz, figures, inflight, nextId>>
    /\ UNCHANGED textVars
    /\ UNCHANGED docVars
    /\ UNCHANGED restVars

\* The close buttons of the open modal; none of them is ever disabled.
CloseModal ==
    /\ modal # "none"
    /\ modal' = "none"
    /\ UNCHANGED <<rawText, isImporting, isGenerating, isAdvancedMenuOpen,
                   generatorPrompt, wsGenerating, tikzGenerating, generatedTikz,
                   figures, inflight, nextId>>
    /\ UNCHANGED textVars
    /\ UNCHANGED docVars
    /\ UNCHANGED restVars

\* The prompt field of the question generator: setGeneratorPrompt(e.target.value).
EditPrompt ==
    /\ modal = "generator"
    /\ \E q \in {"blank", "prompt"} : generatorPrompt' = q
    /\ UNCHANGED <<rawText, isImporting, isGenerating, isAdvancedMenuOpen, modal,
                   wsGenerating, tikzGenerating, generatedTikz, figures, inflight,
                   nextId>>
    /\ UNCHANGED textVars
    /\ UNCHANGED docVars
    /\ UNCHANGED restVars

\* handleGenerateQuestion up to its await.
HandleGenerateQuestion ==
    /\ modal = "generator"
    /\ generatorPrompt # "blank"         \* disabled={!generatorPrompt.trim() || isGenerating}
    /\ ~isGenerating
    /\ nextId < MaxRequests
    /\ isGenerating' = TRUE
    /\ inflight' = inflight \cup {NewRequest("question", "none", rawText)}
    /\ nextId' = nextId + 1
    /\ UNCHANGED <<rawText, isImporting, isAdvancedMenuOpen, modal, generatorPrompt,
                   wsGenerating, tikzGenerating, generatedTikz, figures>>
    /\ UNCHANGED textVars
    /\ UNCHANGED docVars
    /\ UNCHANGED restVars

\* A mutant of HandleGenerateQuestionSettled: the content is appended to the
\* text the handler was started with.
HandleGenerateQuestionSettledOnStartText(r, ok) ==
    /\ r \in inflight
    /\ r.kind = "question"
    /\ inflight' = inflight \ {r}
    /\ IF ok
       THEN /\ rawText' = AppendContent(r.content, <<"question">>)
            /\ modal' = IF modal = "generator" THEN "none" ELSE modal
            /\ generatorPrompt' = "blank"
       ELSE UNCHANGED <<rawText, modal, generatorPrompt>>
    /\ isGenerating' = FALSE
    /\ UNCHANGED <<isImporting, isAdvancedMenuOpen, wsGenerating, tikzGenerating,
                   generatedTikz, figures, nextId>>
    /\ UNCHANGED textVars
    /\ UNCHANGED docVars
    /\ UNCHANGED restVars

\* handleGenerateQuestion after the await: on success the generated content is
\* appended to the text as it is now, the modal closed and the prompt cleared;
\* then the finally block.
HandleGenerateQuestionSettled(r, ok) ==
    /\ r \in inflight
    /\ r.kind = "question"
    /\ inflight' = inflight \ {r}
    /\ IF ok
       THEN /\ rawText' = AppendContent(rawText, <<"question">>)
            /\ modal' = IF modal = "generator" THEN "none" ELSE modal
            /\ generatorPrompt' = "blank"
       ELSE UNCHANGED <<rawText, modal, generatorPrompt>>
    /\ isGenerating' = FALSE
    /\ UNCHANGED <<isImporting, isAdvancedMenuOpen, wsGenerating, tikzGenerating,
                   generatedTikz, figures, nextId>>
    /\ UNCHANGED textVars
    /\ UNCHANGED docVars
    /\ UNCHANGED restVars

\* WorksheetGeneratorModal.handleGenerate up to its await, a lesson name typed.
WorksheetHandleGenerate ==
    /\ modal = "worksheet"
    /\ ~wsGenerating                     \* disabled={isGenerating || !lesson.trim()}
    /\ nextId < MaxRequests
    /\ wsGenerating' = TRUE
    /\ inflight' = inflight \cup {NewRequest("worksheet", "none", rawText)}
    /\ nextId' = nextId + 1
    /\ UNCHANGED <<rawText, isImporting, isGenerating, isAdvancedMenuOpen, modal,
                   generatorPrompt, tikzGenerating, generatedTikz, figures>>
    /\ UNCHANGED textVars
    /\ UNCHANGED docVars
    /\ UNCHANGED restVars

\* A mutant of WorksheetHandleGenerateSettled: the flag is cleared on success
\* only.
WorksheetHandleGenerateSettledNoFinally(r, ok) ==
    /\ r \in inflight
    /\ r.kind = "worksheet"
    /\ inflight' = inflight \ {r}
    /\ IF ok
       THEN /\ rawText' = AppendContent(rawText, <<"worksheet">>)
            /\ modal' = IF modal = "worksheet" THEN "none" ELSE modal
            /\ wsGenerating' = FALSE
       ELSE UNCHANGED <<rawText, modal, wsGenerating>>
    /\ UNCHANGED <<isImporting, isGenerating, isAdvancedMenuOpen, generatorPrompt,
                   tikzGenerating, generatedTikz, figures, nextId>>
    /\ UNCHANGED textVars
    /\ UNCHANGED docVars
    /\ UNCHANGED restVars

\* WorksheetGeneratorModal.handleGenerate after the await: onInsertContent(result)
\* and onClose() on success; then the finally block.
WorksheetHandleGenerateSettled(r, ok) ==
    /\ r \in inflight
    /\ r.kind = "worksheet"
    /\ inflight' = inflight \ {r}
    /\ IF ok
       THEN /\ rawText' = AppendContent(rawText, <<"worksheet">>)
            /\ modal' = IF modal = "worksheet" THEN "none" ELSE modal
       ELSE UNCHANGED <<rawText, modal>>
    /\ wsGenerating' = FALSE
    /\ UNCHANGED <<isImporting, isGenerating, isAdvancedMenuOpen, generatorPrompt,
                   tikzGenerating, generatedTikz, figures, nextId>>
    /\ UNCHANGED textVars
    /\ UNCHANGED docVars
    /\ UNCHANGED restVars

\* TikzLibraryModal.handleGenerateTikz up to its await, an image or a
\* description given.
HandleGenerateTikz ==
    /\ modal = "tikz"
    /\ ~tikzGenerating                   \* disabled={isGenerating || ...}
    /\ nextId < MaxRequests
    /\ tikzGenerating' = TRUE
    /\ inflight' = inflight \cup {NewRequest("tikz", "none", rawText)}
    /\ nextId' = nextId + 1
    /\ UNCHANGED <<rawText, isImporting, isGenerating, isAdvancedMenuOpen, modal,
                   generatorPrompt, wsGenerating, generatedTikz, figures>>
    /\ UNCHANGED textVars
    /\ UNCHANGED docVars
    /\ UNCHANGED restVars

\* TikzLibraryModal.handleGenerateTikz after the await: setGeneratedTikz(code)
\* on success; the generated code stays in the modal.
HandleGenerateTikzSettled(r, ok) ==
    /\ r \in inflight
    /\ r.kind = "tikz"
    /\ inflight' = inflight \ {r}
    /\ generatedTikz' = (ok \/ generatedTikz)
    /\ tikzGenerating' = FALSE
    /\ UNCHANGED <<rawText, isImporting, isGenerating, isAdvancedMenuOpen, modal,
                   generatorPrompt, wsGenerating, figures, nextId>>
    /\ UNCHANGED textVars
    /\ UNCHANGED docVars
    /\ UNCHANGED restVars

\* TikzLibraryModal.handleSaveFigure, a lesson selected and a name given: the
\* generated code is stored in the lesson and the fields are cleared.
HandleSaveFigure ==
    /\ modal = "tikz"
    /\ generatedTikz                     \* disabled={!generatedTikz.trim()}
    /\ figures' = TRUE
    /\ generatedTikz' = FALSE
    /\ UNCHANGED <<rawText, isImporting, isGenerating, isAdvancedMenuOpen, modal,
                   generatorPrompt, wsGenerating, tikzGenerating, inflight, nextId>>
    /\ UNCHANGED textVars
    /\ UNCHANGED docVars
    /\ UNCHANGED restVars

\* The insert button of a saved figure: onInsertCode(fig.tikzCode).
InsertCode ==
    /\ modal = "tikz"
    /\ figures
    /\ FiguresIn(rawText) < MaxFigures
    /\ rawText' = AppendCode(rawText, TikzBlock)
    /\ modal' = "none"
    /\ UNCHANGED <<isImporting, isGenerating, isAdvancedMenuOpen, generatorPrompt,
                   wsGenerating, tikzGenerating, generatedTikz, figures, inflight,
                   nextId>>
    /\ UNCHANGED textVars
    /\ UNCHANGED docVars
    /\ UNCHANGED restVars

\* handleExport, seen from the document: its fetches and the assembly of the
\* file are one external call here.  The overlay shown while isExporting lies
\* over the export menu, not over the textarea.
ExportStarted ==
    /\ PageReachable
    /\ ~isExporting
    /\ nextId < MaxRequests
    /\ isExporting' = TRUE
    /\ inflight' = inflight \cup {NewRequest("export", "none", rawText)}
    /\ nextId' = nextId + 1
    /\ UNCHANGED <<rawText, isImporting, isGenerating, isAdvancedMenuOpen, modal,
                   generatorPrompt, wsGenerating, tikzGenerating, generatedTikz,
                   figures>>
    /\ UNCHANGED <<exportStyle, fetches, tikzImagesMap, katex, bodyContent, textRuns>>
    /\ UNCHANGED textVars
    /\ UNCHANGED docVars
    /\ UNCHANGED importStatus
    /\ UNCHANGED libraryVars

\* handleExport comes to its end: the file is downloaded, or the packaging
\* failed and the catch block reports it; then the finally block.
ExportSettled(r, ok) ==
    /\ r \in inflight
    /\ r.kind = "export"
    /\ ok \in BOOLEAN
    /\ inflight' = inflight \ {r}
    /\ isExporting' = FALSE
    /\ UNCHANGED <<rawText, isImporting, isGenerating, isAdvancedMenuOpen, modal,
                   generatorPrompt, wsGenerating, tikzGenerating, generatedTikz,
                   figures, nextId>>
    /\ UNCHANGED <<exportStyle, fetches, tikzImagesMap, katex, bodyContent, textRuns>>
    /\ UNCHANGED textVars
    /\ UNCHANGED docVars
    /\ UNCHANGED importStatus
    /\ UNCHANGED libraryVars

AppNext ==
    \/ EditText
    \/ HandleReset
    \/ ToggleRichText
    \/ ToggleAdvancedMenu
    \/ \E ai \in BOOLEAN : HandleFileUpload(ai)
    \/ \E r \in inflight, ok, rich \in BOOLEAN : HandleFileUploadSettled(r, ok, rich)
    \/ \E mode \in TransformModes : HandleAiTransform(mode)
    \/ \E r \in inflight, ok \in BOOLEAN : HandleAiTransformSettled(r, ok)
    \/ HandleTexToWord
    \/ \E r \in inflight : TexToWordTimerFired(r)
    \/ OpenModal
    \/ CloseModal
    \/ EditPrompt
    \/ HandleGenerateQuestion
    \/ \E r \in inflight, ok \in BOOLEAN : HandleGenerateQuestionSettled(r, ok)
    \/ WorksheetHandleGenerate
    \/ \E r \in inflight, ok \in BOOLEAN : WorksheetHandleGenerateSettled(r, ok)
    \/ HandleGenerateTikz
    \/ \E r \in inflight, ok \in BOOLEAN : HandleGenerateTikzSettled(r, ok)
    \/ HandleSaveFigure
    \/ InsertCode
    \/ ExportStarted
    \/ \E r \in inflight, ok \in BOOLEAN : ExportSettled(r, ok)

AppSpec == AppInit /\ [][AppNext]_vars

(***************************************************************************)
(* Properties of the App                                                   *)
(***************************************************************************)

\* The generative-AI requests made for the document that have not settled.
DocumentAiInFlight == {r \in inflight : r.kind \in DocumentAiKinds}

\* C3: at most one generative-AI request made for the document (OCR import,
\* content transform, question generation, worksheet generation) is
\* outstanding at any time.
C3_AtMostOneAiRequest == Cardinality(DocumentAiInFlight) <= 1

\* An AI call for the document, or the packaging of an export, fails: the
\* step in which the handler that started r handles the failure.
FailureOf(r) ==
    \/ r.kind = "ocr" /\ HandleFileUploadSettled(r, FALSE, FALSE)
    \/ HandleAiTransformSettled(r, FALSE)
    \/ HandleGenerateQuestionSettled(r, FALSE)
    \/ ExportSettled(r, FALSE)

\* C12 as stated: when an AI call (OCR import, content transform, question
\* generation) or the export packaging step fails, the document state (source
\* text and rich-text flag) after the failure is the document state of the
\* moment the operation was started.
C12_StateAsWhenStarted ==
    [][\A r \in inflight :
           FailureOf(r) => (rawText' = r.content /\ isRichText' = r.rich)]_vars

\* C12, amended: when an AI call or the export packaging step fails, the
\* handling of the failure changes neither the source text nor the rich-text
\* flag and ends no other operation: the document state after the failure is
\* the state just before it, with whatever the user and other operations have
\* changed since the failed operation was started.
C12_FailureChangesNothing ==
    [][\A r \in inflight :
           FailureOf(r) =>
               /\ rawText' = rawText
               /\ isRichText' = isRichText
               /\ inflight' = inflight \ {r}]_vars

\* An OCR import has failed, and the document holds what was inserted into it
\* since the sample was loaded.
C12_Witness ==
    /\ importStatus = "Error"
    /\ \E p \in 1..Len(rawText) : rawText[p] = "question"

(***************************************************************************)
(* Properties of the Segmenter                                             *)
(***************************************************************************)

\* The literal lit occurs in s.
Occurs(lit, s) == \E p \in 1..Len(s) : StartsWithAt(s, p, lit)

\* A segment's content inside the delimiters of the alternative that matched.
Rewrap(a, content) ==
    CASE a \in {"tikz", "env"} -> content
      [] a = "dollars" -> <<"$", "$">> \o content \o <<"$", "$">>
      [] a = "bracket" -> <<"\\", "[">> \o content \o <<"\\", "]">>
      [] a = "paren" -> <<"\\", "(">> \o content \o <<"\\", ")">>
      [] a = "dollar" -> <<"$">> \o content \o <<"$">>

\* The segments segs put together again, the i-th segment that is not a text
\* segment inside the delimiters of the i-th match of ms.
RECURSIVE Rebuild(_, _)
Rebuild(segs, ms) ==
    IF segs = <<>> THEN <<>>
    ELSE IF Head(segs).type = "text"
    THEN Head(segs).content \o Rebuild(Tail(segs), ms)
    ELSE IF ms = <<>> THEN <<"unmatched segment">>
    ELSE Rewrap(Head(ms).alt, Head(segs).content) \o Rebuild(Tail(segs), Tail(ms))

\* C1: the contents of the segments parseContent returns, each math segment
\* put back inside the delimiters it was matched with, make up the normalized
\* text again, in order and with nothing lost.
C1_RoundTrip ==
    pc = "parsed" => Rebuild(segments, MatchesFrom(cleanText, 1)) = cleanText

\* parseContent has returned text around a math segment that lost its delimiters.
C1_Witness ==
    /\ pc = "parsed"
    /\ Len(segments) >= 2
    /\ \E i \in 1..Len(segments) : segments[i].type = "text"
    /\ \E i \in 1..Len(segments) :
          /\ segments[i].type = "math"
          /\ segments[i].content # <<>>
          /\ ~Occurs(<<"$">>, segments[i].content)
    /\ Occurs(<<"$">>, cleanText)

\* A complete diagram block occurs in s.
ContainsTikzBlock(s) == \E p \in 1..Len(s) : MatchAlternative("tikz", s, p) # 0

\* C2: a diagram block is always a segment of kind tikz of its own; no segment
\* of another kind, a math segment between $$ and $$ in particular, holds a
\* complete diagram block.
C2_DiagramNotSwallowed ==
    pc = "parsed" =>
        \A i \in 1..Len(segments) :
            segments[i].type # "tikz" => ~ContainsTikzBlock(segments[i].content)

\* No alternative of the pattern matches anywhere in s.
NoDelimiter(s) ==
    \A p \in 1..Len(s) : \A i \in 1..Len(Alternatives) :
        MatchAlternative(Alternatives[i], s, p) = 0

\* C7, as the specification states it: when no delimiter is recognized, the
\* empty text included, parseContent returns exactly one text segment, equal
\* to the whole normalized text.
C7_OneTextSegment ==
    (pc = "parsed" /\ NoDelimiter(cleanText)) => segments = <<TextSegment(cleanText)>>

\* C7, amended: when no delimiter is recognized in a normalized text that is
\* not empty, parseContent returns exactly one text segment, equal to the whole
\* normalized text; when the normalized text is empty it returns no segment.
C7_OneTextSegmentUnlessEmpty ==
    (pc = "parsed" /\ NoDelimiter(cleanText)) =>
        IF cleanText = <<>> THEN segments = <<>>
        ELSE segments = <<TextSegment(cleanText)>>

\* parseContent has returned the one text segment of a text without delimiters
\* that the Normalizer changed.
C7_Witness ==
    /\ pc = "parsed"
    /\ NoDelimiter(cleanText)
    /\ cleanText # <<>>
    /\ cleanText # text
    /\ segments = <<TextSegment(cleanText)>>

\* Every dollar sign of s comes right after a backslash.
AllDollarsEscaped(s) ==
    \A p \in 1..Len(s) : s[p] = "$" => (p > 1 /\ s[p - 1] = "\\")

\* C8: a dollar sign that comes right after a backslash never opens
\* single-dollar inline math: no single-dollar match starts at one, a text
\* whose dollar signs are all escaped has no dollar-delimited match, and with
\* no other delimiter in it, as in "Price: \$5 \$10", it yields no math segment.
C8_EscapedDollar ==
    pc = "parsed" =>
        LET ms == MatchesFrom(cleanText, 1)
        IN  /\ \A i \in 1..Len(ms) :
                  ms[i].alt = "dollar" =>
                      (ms[i].index = 1 \/ cleanText[ms[i].index - 1] # "\\")
            /\ AllDollarsEscaped(text) =>
                  /\ \A i \in 1..Len(ms) : ms[i].alt \notin {"dollar", "dollars"}
                  /\ Len(ms) = 0 =>
                        \A i \in 1..Len(segments) : segments[i].type = "text"
            /\ text = PriceText => segments = <<TextSegment(PriceText)>>

\* parseContent has returned "Price: \$5 \$10" as one text segment.
C8_Witness ==
    /\ pc = "parsed"
    /\ text = PriceText
    /\ AllDollarsEscaped(text)
    /\ Occurs(<<"\\", "$">>, text)
    /\ \A i \in 1..Len(segments) : segments[i].type # "math"

(***************************************************************************)
(* Properties of the question-block splitter                               *)
(***************************************************************************)

\* A question marker starts at position p of the normalized text n: the
\* exercise-environment opener, or a question word with its numeral and
\* punctuation at the start of the text or of a line.
IsMarkerStart(n, p) ==
    \/ MatchExTag(K_begin, n, p) # 0
    \/ /\ MatchQuestionWord(n, p) # 0
       /\ (p = 1 \/ n[p - 1] = "\n")

MarkerStarts(n) == {p \in 1..Len(n) : IsMarkerStart(n, p)}

\* The elements of a set of numbers, in increasing order.
RECURSIVE Ascending(_)
Ascending(S) ==
    IF S = {} THEN <<>>
    ELSE LET m == CHOOSE x \in S : \A y \in S : x <= y
         IN  <<m>> \o Ascending(S \ {m})

\* C9: on a text with k >= 1 question markers smartSplitContent returns exactly
\* k blocks, the i-th being the trimmed part of the line-ending-normalized text
\* from the start of marker i to the start of marker i+1, or to the end of the
\* text for the last marker.
C9_OneBlockPerMarker ==
    pc = "split" =>
        LET n == NormalizeLineEndings(text)
            starts == Ascending(MarkerStarts(n))
            k == Len(starts)
        IN  k >= 1 =>
               /\ Len(blocks) = k
               /\ \A i \in 1..k :
                     blocks[i] = Trim(SubSeq(n, starts[i],
                                             IF i < k THEN starts[i + 1] - 1 ELSE Len(n)))

\* smartSplitContent has split a text with CR LF line endings into two blocks,
\* the first one trimmed.
C9_Witness ==
    /\ pc = "split"
    /\ Len(blocks) = 2
    /\ Cardinality(MarkerStarts(NormalizeLineEndings(text))) = 2
    /\ Occurs(<<"\r", "\n">>, text)
    /\ Len(blocks[1]) + Len(blocks[2]) < Len(NormalizeLineEndings(text))

\* C10: on a text with no question marker smartSplitContent returns exactly one
\* block, equal to the entire input.
C10_WholeInput ==
    (pc = "split" /\ MarkerStarts(NormalizeLineEndings(text)) = {}) => blocks = <<text>>

\* smartSplitContent has returned a text without markers and with a CR LF line
\* ending as its one block.
C10_Witness ==
    /\ pc = "split"
    /\ MarkerStarts(NormalizeLineEndings(text)) = {}
    /\ Occurs(<<"\r", "\n">>, text)
    /\ Occurs(K_Cau, text)
    /\ blocks = <<text>>

(***************************************************************************)
(* Properties of the Macro Normalizer                                      *)
(***************************************************************************)

\* C4: preprocessLatexExam is idempotent: applied to its own result it changes
\* nothing.
C4_Idempotent == pc = "renormalized" => cleanText = text

\* How deep the braces of s are nested.
MaxDepth(s) ==
    LET open(p) == Cardinality({q \in 1..p : s[q] = "{"})
                   - Cardinality({q \in 1..p : s[q] = "}"})
    IN  CHOOSE d \in 0..Len(s) :
            /\ \A p \in 1..Len(s) : open(p) <= d
            /\ d = 0 \/ \E p \in 1..Len(s) : open(p) = d

\* The literals lits occur in s from p on, in their order and without overlap.
RECURSIVE InOrderFrom(_, _, _)
InOrderFrom(lits, s, p) ==
    IF lits = <<>> THEN TRUE
    ELSE \E q \in p..Len(s) :
            /\ StartsWithAt(s, q, Head(lits))
            /\ InOrderFrom(Tail(lits), s, q + Len(Head(lits)))

\* The four arguments as, each after its answer label.
Labelled(as) ==
    << <<"A", ".", " ">> \o as[1], <<"B", ".", " ">> \o as[2],
       <<"C", ".", " ">> \o as[3], <<"D", ".", " ">> \o as[4] >>

\* A \choice invocation with four arguments of at most one nesting level has
\* been normalized.
WellFormedChoice ==
    /\ pc = "normalized"
    /\ macro = "choice"
    /\ Len(args) = 4
    /\ \A i \in 1..4 : MaxDepth(args[i]) <= 1

\* C5, as the specification states it: after normalizing \choice{a}{b}{c}{d},
\* each argument with at most one level of nested braces, the output contains
\* the four arguments in order, after A., B., C. and D., and nothing of the
\* \choice macro remains.
C5_ChoiceRewritten ==
    WellFormedChoice =>
        /\ InOrderFrom(Labelled(args), cleanText, 1)
        /\ ~Occurs(K_choice, cleanText)

\* C5, amended: the same for arguments that the Normalizer itself leaves
\* unchanged, that is, arguments without \True, \shortans and the other
\* commands it rewrites.
C5_ChoiceRewrittenPlainArguments ==
    (WellFormedChoice /\ \A i \in 1..4 : PreprocessLatexExam(args[i]) = args[i]) =>
        /\ InOrderFrom(Labelled(args), cleanText, 1)
        /\ ~Occurs(K_choice, cleanText)

\* A \choice invocation with an argument holding a nested brace group has been
\* rewritten.
C5_Witness ==
    /\ WellFormedChoice
    /\ \A i \in 1..4 : PreprocessLatexExam(args[i]) = args[i]
    /\ \E i \in 1..4 : MaxDepth(args[i]) = 1
    /\ cleanText = Replacement("choice", args)
    /\ cleanText # text

\* C6, as the specification states it: an invocation of \choice, \choiceTF or
\* \shortans with an argument nested deeper than one level, or with a number of
\* arguments other than the macro's arity, is left unchanged by the macro's rule.
C6_MalformedUnchanged ==
    ( /\ pc = "ruled"
      /\ \/ Len(args) # Arity(macro)
         \/ \E i \in 1..Len(args) : MaxDepth(args[i]) > 1 )
    => cleanText = text

\* The invocation has fewer arguments than the macro's arity, or one of the
\* arguments the rule would take is nested deeper than one level.
TooFewOrTooDeep ==
    \/ Len(args) < Arity(macro)
    \/ \E i \in 1..Arity(macro) : MaxDepth(args[i]) > 1

\* No argument holds an invocation of the macro itself.
NoInnerInvocation == \A i \in 1..Len(args) : ~Occurs(MacroWord(macro), args[i])

\* C6, amended: an invocation with fewer arguments than the macro's arity, or
\* with one of its first arity arguments nested deeper than one level, and with
\* no invocation of the same macro inside its arguments, is left unchanged by
\* the macro's rule.
C6_TooFewOrTooDeepUnchanged ==
    (pc = "ruled" /\ TooFewOrTooDeep /\ NoInnerInvocation) => cleanText = text

\* The rule has run on an invocation with enough arguments, one of them too deep.
C6_Witness ==
    /\ pc = "ruled"
    /\ Len(args) >= Arity(macro)
    /\ TooFewOrTooDeep
    /\ NoInnerInvocation
    /\ cleanText = text

(***************************************************************************)
(* The export: handleExport and generateWordCompatibleFile                 *)
(***************************************************************************)

\* The export profiles.
ExportStyles ==
    {"standard", "minimal", "worksheet", "notes", "two-column", "landscape",
     "large-print", "draft", "flashcards"}

\* "HUONG DAN CHAM" and "DAP AN", in Vietnamese capitals.
K_HuongDanCham ==
    <<"H", "U+01AF", "U+1EDA", "N", "G", " ", "D", "U+1EAA", "N", " ",
      "C", "H", "U+1EA4", "M">>
K_DapAn == <<"U+0110", "U+00C1", "P", " ", "U+00C1", "N">>

\* s.includes(lit)
Includes(s, lit) == \E p \in 1..Len(s) : StartsWithAt(s, p, lit)

\* A piece of the document body.  The body is the sequence of its pieces: a
\* piece stands for the markup the source writes for it, arg is the segment
\* content the markup is made from, width and height are those of an image.
Piece(tag, arg, width, height) ==
    [tag |-> tag, arg |-> arg, width |-> width, height |-> height]

Markup(tag) == Piece(tag, <<>>, 0, 0)

\* /[\s\u00A0\(\[\{]$/.test(content)
EndsInSpaceOrOpening(content) ==
    /\ content # <<>>
    /\ \/ IsSpace(content[Len(content)])
       \/ content[Len(content)] \in {"U+00A0", "(", "[", "{"}

\* /^[\s\u00A0.,;!?:)\]\}]/.test(content)
StartsWithSpaceOrClosing(content) ==
    /\ content # <<>>
    /\ \/ IsSpace(content[1])
       \/ content[1] \in {"U+00A0", ".", ",", ";", "!", "?", ":", ")", "]", "}"}

\* toUpperCase() of a character.
ToUpper(c) ==
    IF \E u \in DOMAIN ToLower : ToLower[u] = c
    THEN CHOOSE u \in DOMAIN ToLower : ToLower[u] = c
    ELSE c

Upper(s) == [k \in 1..Len(s) |-> ToUpper(s[k])]

\* "PHAN" and "PHAN PHU LUC", in Vietnamese capitals.
K_Phan == <<"P", "H", "U+1EA6", "N">>
K_PhanPhuLuc == K_Phan \o <<" ", "P", "H", "U+1EE4", " ", "L", "U+1EE4", "C">>

\* .replace(/&/g, "&amp;").replace(/</g, "&lt;").replace(/>/g, "&gt;"): an
\* entity is one character of the markup.
Escape(content) ==
    [k \in 1..Len(content) |->
        CASE content[k] = "&" -> "&amp;"
          [] content[k] = "<" -> "&lt;"
          [] content[k] = ">" -> "&gt;"
          [] OTHER -> content[k]]

NoHeading == [index |-> 0, end |-> 0, p1 |-> <<>>, p2 |-> <<>>]

\* (.*?)(?:\*\*)?(\n|$) from p: the position of the newline or of the end of
\* the text that ends the line, or 0 when another line terminator comes first.
LineEnd(s, p) ==
    LET e == SkipLine(s, p)
    IN  IF e > Len(s) \/ s[e] = "\n" THEN e ELSE 0

\* What (.*?) captures of a line: the line without a closing ** .
WithoutClosingStars(line) ==
    IF Len(line) >= 2 /\ line[Len(line) - 1] = "*" /\ line[Len(line)] = "*"
    THEN SubSeq(line, 1, Len(line) - 2)
    ELSE line

\* The position after a match that ends at the line end e.
AfterLine(s, e) == IF e <= Len(s) THEN e + 1 ELSE e

\* (?:\*\*)? at q: the position after it.
SkipStars(s, q) == IF StartsWithAt(s, q, <<"*", "*">>) THEN q + 2 ELSE q

\* (PHAN\s+[A-E]) under the i flag at q: the position after it, or 0.
PartWordEnd(s, q) ==
    IF StartsWithAtI(s, q, K_Phan)
    THEN LET l == SkipSpaces(s, q + Len(K_Phan))
         IN  IF l > q + Len(K_Phan) /\ l <= Len(s)
                /\ Fold(s[l]) \in {"a", "b", "c", "d", "e"}
             THEN l + 1 ELSE 0
    ELSE 0

\* /(?:\*\*)?(PHAN\s+[A-E])(?:\s*:|:)?(.*?)(?:\*\*)?(\n|$)/ with the line
\* starting at q, for a match that starts at index.
PartHeadingFrom(s, index, q) ==
    LET Heading(k, c) ==
            LET colon == k # 0 /\ c <= Len(s) /\ s[c] = ":" /\ LineEnd(s, c + 1) # 0
                from == IF colon THEN c + 1 ELSE k
                e == IF k = 0 THEN 0 ELSE LineEnd(s, from)
            IN  IF k = 0 \/ e = 0 THEN NoHeading
                ELSE [index |-> index, end |-> AfterLine(s, e),
                      p1 |-> Slice(s, SkipStars(s, q), k),
                      p2 |-> WithoutClosingStars(Slice(s, from, e))]
        AfterWord(k) == Heading(k, IF k = 0 THEN 0 ELSE SkipSpaces(s, k))
    IN  AfterWord(PartWordEnd(s, SkipStars(s, q)))

\* (HUONG DAN CHAM|PHAN PHU LUC|DAP AN) under the i flag at q: the position
\* after it, or 0.
SectionWords == {K_HuongDanCham, K_PhanPhuLuc, K_DapAn}

SectionWordEnd(s, q) ==
    IF \E w \in SectionWords : StartsWithAtI(s, q, w)
    THEN q + Len(CHOOSE w \in SectionWords : StartsWithAtI(s, q, w))
    ELSE 0

\* /(?:\*\*)?(HUONG DAN CHAM|PHAN PHU LUC|DAP AN)(.*?)(?:\*\*)?(\n|$)/ with the
\* line starting at q, for a match that starts at index.
SectionHeadingFrom(s, index, q) ==
    LET Heading(k) ==
            LET e == IF k = 0 THEN 0 ELSE LineEnd(s, k)
            IN  IF k = 0 \/ e = 0 THEN NoHeading
                ELSE [index |-> index, end |-> AfterLine(s, e),
                      p1 |-> Slice(s, SkipStars(s, q), k),
                      p2 |-> WithoutClosingStars(Slice(s, k, e))]
    IN  Heading(SectionWordEnd(s, SkipStars(s, q)))

\* (?:^|\n) and then the heading, at position p: ^ is the start of the text.
HeadingAt(s, p, part) ==
    LET HeadingFrom(index, q) ==
            IF part THEN PartHeadingFrom(s, index, q) ELSE SectionHeadingFrom(s, index, q)
        OrAfterNewline(atStart) ==
            IF atStart.index # 0 THEN atStart
            ELSE IF s[p] # "\n" THEN NoHeading
            ELSE HeadingFrom(p, p + 1)
    IN  OrAfterNewline(IF p # 1 THEN NoHeading ELSE HeadingFrom(1, 1))

\* Step 1, safeText.replace(part heading, <h3>...</h3>), from position p on: a
\* tag is one character of the markup.
RECURSIVE PartHeaders(_, _)
PartHeaders(s, p) ==
    IF p > Len(s) THEN <<>>
    ELSE LET Written(m) ==
                 IF m.index = 0 THEN <<s[p]>> \o PartHeaders(s, p + 1)
                 ELSE <<"<h3>">> \o Upper(m.p1) \o <<":", " ", "<span>">>
                      \o Upper(Trim(m.p2)) \o <<"</span>", "</h3>">>
                      \o PartHeaders(s, m.end)
         IN  Written(HeadingAt(s, p, TRUE))

\* Step 2, safeText.replace(section heading, page break and <h2>...</h2>).
RECURSIVE PageBreakHeadings(_, _)
PageBreakHeadings(s, p) ==
    IF p > Len(s) THEN <<>>
    ELSE LET Written(m) ==
                 IF m.index = 0 THEN <<s[p]>> \o PageBreakHeadings(s, p + 1)
                 ELSE <<"<page-break>", "<h2>">> \o m.p1 \o m.p2 \o <<"</h2>">>
                      \o PageBreakHeadings(s, m.end)
         IN  Written(HeadingAt(s, p, FALSE))

\* safeText after the headings are written: the escapes, step 1 and step 2.
\* The steps after them style words inside the lines and add or remove no
\* page break and no heading.
SafeTextHeadings(content) ==
    PageBreakHeadings(PartHeaders(Escape(content), 1), 1)

\* The safeText of every text segment of a plain-text export; a segment that
\* is not rendered through safeText has none.
TextRunsOf(segs, rich) ==
    [i \in 1..Len(segs) |->
        IF segs[i].type = "text" /\ ~ rich THEN SafeTextHeadings(segs[i].content)
        ELSE <<>>]

\* Math.round(a / b) for a >= 0 and b > 0
RoundDiv(a, b) == (2 * a + b) \div (2 * b)

\* A text segment needs writing lines after it under the worksheet profile.
NeedsWritingLines(content) ==
    /\ ~ (Includes(content, K_HuongDanCham) \/ Includes(content, K_DapAn))
    /\ Includes(content, K_Cau) \/ Includes(content, K_Bai)
    /\ Len(content) > 50

\* A mutant of TextHtml: the writing lines are left out under "minimal" only.
TextHtmlLinesUnlessMinimal(segment, rich, style) ==
    <<Piece(IF rich THEN "rich-text" ELSE "text-run", segment.content, 0, 0)>>
    \o (IF style # "minimal" /\ ~ rich /\ NeedsWritingLines(segment.content)
        THEN <<Markup("writing-lines")>> ELSE <<>>)

\* The text branch of the loop of generateWordCompatibleFile.  The markup of a
\* text run is made from the segment content and the rich-markup flag alone.
TextHtml(segment, rich, style) ==
    <<Piece(IF rich THEN "rich-text" ELSE "text-run", segment.content, 0, 0)>>
    \o (IF style = "worksheet" /\ ~ rich /\ NeedsWritingLines(segment.content)
        THEN <<Markup("writing-lines")>> ELSE <<>>)

\* The tikz branch.
TikzHtml(segment, map) ==
    IF segment.content \in DOMAIN map
    THEN LET imgData == map[segment.content]
             displayWidth == RoundDiv(imgData.width, 4)
             displayHeight == RoundDiv(imgData.height, 4)
             finalWidth == IF displayWidth > 0 THEN displayWidth ELSE 200
             finalHeight ==
                 IF displayHeight > 0 THEN displayHeight
                 ELSE RoundDiv(200 * imgData.height, imgData.width)
         IN  <<Piece("img", segment.content, finalWidth, finalHeight)>>
    ELSE <<Piece("tikz-error", <<>>, 0, 0)>>

\* A mutant of PrefixOf: the space is written after every text.
PrefixOfAnyText(segs, index) ==
    IF index > 1 /\ segs[index - 1].type = "text"
    THEN <<Markup("nbsp")>> ELSE <<>>

\* The spaces an inline formula gets, before it and after it.
PrefixOf(segs, index) ==
    IF index > 1 /\ segs[index - 1].type = "text"
       /\ ~ EndsInSpaceOrOpening(segs[index - 1].content)
    THEN <<Markup("nbsp")>> ELSE <<>>

SuffixOf(segs, index) ==
    IF index < Len(segs) /\ segs[index + 1].type = "text"
       /\ ~ StartsWithSpaceOrClosing(segs[index + 1].content)
    THEN <<Markup("nbsp")>> ELSE <<>>

\* The math branch.  kx is what katex.renderToString does with a formula: it
\* returns markup with a <math> element in it, markup without one, or throws.
MathHtml(segs, index, style, kx) ==
    LET segment == segs[index]
    IN  CASE kx[segment.content] = "throws" -> <<Markup("latex-error")>>
          [] kx[segment.content] = "no-math" -> <<Markup("equation-error")>>
          [] OTHER ->
              IF segment.displayMode
              THEN <<Piece("equation", segment.content, 0, 0)>>
                   \o (IF style = "worksheet" THEN <<Markup("spacer")>> ELSE <<>>)
              ELSE PrefixOf(segs, index)
                   \o <<Piece("math", segment.content, 0, 0)>>
                   \o SuffixOf(segs, index)

\* segment.displayMode, which a text segment does not have
DisplayModeOf(segment) == segment.type # "text" /\ segment.displayMode

\* segmentHtml.trim().length > 0 for the markup of a text segment: plain text is
\* always wrapped in a span, rich markup is the content as it is.
TextHtmlNotBlank(segment, rich) == ~ rich \/ Trim(segment.content) # <<>>

\* A mutant of BodyOfSegment: under the flashcards profile what is not put in
\* a card is left out.
BodyOfSegmentCardsOnly(segs, index, rich, style, map, kx) ==
    LET segment == segs[index]
        segmentHtml ==
            CASE segment.type = "text" -> TextHtml(segment, rich, style)
              [] segment.type = "tikz" -> TikzHtml(segment, map)
              [] OTHER -> MathHtml(segs, index, style, kx)
    IN  IF style # "flashcards" THEN segmentHtml
        ELSE IF \/ segment.type = "text" /\ TextHtmlNotBlank(segment, rich)
                \/ DisplayModeOf(segment)
        THEN <<Markup("flashcard")>> \o segmentHtml \o <<Markup("/flashcard")>>
        ELSE <<>>

\* What one pass of the loop adds to the body.
BodyOfSegment(segs, index, rich, style, map, kx) ==
    LET segment == segs[index]
        segmentHtml ==
            CASE segment.type = "text" -> TextHtml(segment, rich, style)
              [] segment.type = "tikz" -> TikzHtml(segment, map)
              [] OTHER -> MathHtml(segs, index, style, kx)
    IN  IF /\ style = "flashcards"
           /\ \/ segment.type = "text" /\ TextHtmlNotBlank(segment, rich)
              \/ DisplayModeOf(segment)
        THEN <<Markup("flashcard")>> \o segmentHtml \o <<Markup("/flashcard")>>
        ELSE segmentHtml

RECURSIVE BodyFrom(_, _, _, _, _, _)
BodyFrom(segs, index, rich, style, map, kx) ==
    IF index > Len(segs) THEN <<>>
    ELSE BodyOfSegment(segs, index, rich, style, map, kx)
         \o BodyFrom(segs, index + 1, rich, style, map, kx)

\* The body generateWordCompatibleFile builds from the segments.
GenerateWordCompatibleFile(segs, rich, style, map) ==
    BodyFrom(segs, 1, rich, style, map, katex)

\* The values the document template takes from the profile.
TemplateOf(style) ==
    [pageMargin |->
         CASE style = "notes" -> "1in 1in 1in 2.5in"
           [] style \in {"minimal", "two-column"} -> "0.5in"
           [] style = "draft" -> "1.5in"
           [] OTHER -> "1in",
     orientation |-> IF style = "landscape" THEN "landscape" ELSE "portrait",
     fontSize |-> IF style = "large-print" THEN "16pt" ELSE "13pt",
     fontFamily |->
         IF style = "large-print" THEN "Arial, sans-serif"
         ELSE "'Times New Roman', serif",
     lineHeight |->
         CASE style = "minimal" -> "1.2"
           [] style = "large-print" -> "1.6"
           [] style = "draft" -> "2.0"
           [] OTHER -> "1.3",
     extraCss |->
         CASE style = "two-column" -> "column-count"
           [] style = "flashcards" -> "flashcard-border"
           [] OTHER -> "",
     headingColor1 |-> IF style \in {"minimal", "draft"} THEN "#000000" ELSE "#2E74B5",
     headingColor2 |-> IF style \in {"minimal", "draft"} THEN "#000000" ELSE "#1F4D78",
     tableHeaderBg |-> IF style \in {"minimal", "draft"} THEN "#ffffff" ELSE "#f2f2f2"]

\* segments.filter(s => s.type === 'tikz'), as the indices of the segments
RECURSIVE TikzIndicesFrom(_, _)
TikzIndicesFrom(segs, index) ==
    IF index > Len(segs) THEN <<>>
    ELSE (IF segs[index].type = "tikz" THEN <<index>> ELSE <<>>)
         \o TikzIndicesFrom(segs, index + 1)

TikzIndices(segs) == TikzIndicesFrom(segs, 1)

\* What the fetch of one image can come to: the request is rejected, the
\* response is not an image (naturalWidth is 0), or it is an image of a size.
Outcome(status, width, height) ==
    [status |-> status, width |-> width, height |-> height]

Pending == Outcome("pending", 0, 0)
ImageSizes == {Outcome("image", 400, 200), Outcome("image", 1, 400)}
FetchFailures == {Outcome("rejected", 0, 0), Outcome("no-image", 0, 0)}
FetchOutcomes == FetchFailures \cup ImageSizes

\* The documents an export is run on.
MaxExportPieces == 3

TikzBlockY == K_begin \o K_tikzpicture \o <<"y">> \o K_end \o K_tikzpicture
So == <<"s", "o", ",">>
La == <<"l", "U+00E0">>
InlineX == <<"$", "x", "$">>
\* A question of more than 50 characters.
LongQuestion == K_Cau \o [i \in 1..48 |-> "."]

\* \shortans{5}
ShortAns5 == K_shortans \o <<"{", "5", "}">>

ExportPieces ==
    { TikzBlock, TikzBlockY, So, La, <<" ">>, <<"(">>, <<")">>, InlineX,
      BracketBlock, LongQuestion, K_DapAn, ShortAns5 }

ExportTexts == TextsOf(ExportPieces, MaxExportPieces)

KatexOutcomes == {"math", "no-math", "throws"}

\* The formulas of a segment sequence.
FormulasOf(segs) == {segs[i].content : i \in {j \in 1..Len(segs) : segs[j].type = "math"}}

\* The App with a document in it, and no export started.
ExportInit ==
    /\ text \in ExportTexts
    /\ segments = ParseContent(text)
    /\ isRichText \in BOOLEAN
    /\ katex \in [FormulasOf(segments) -> KatexOutcomes]
    /\ pc = "ready"
    /\ cleanText = <<>>
    /\ blocks = <<>>
    /\ scanIndex = 1
    /\ args = <<>>
    /\ macro = "none"
    /\ LibraryIdle
    /\ importStatus = ""
    /\ isExporting = FALSE
    /\ exportStyle = "standard"
    /\ fetches = <<>>
    /\ tikzImagesMap = <<>>
    /\ bodyContent = <<>>
    /\ textRuns = <<>>
    /\ rawText = <<"sample">>
    /\ isImporting = FALSE
    /\ isGenerating = FALSE
    /\ isAdvancedMenuOpen = FALSE
    /\ modal = "none"
    /\ generatorPrompt = "blank"
    /\ wsGenerating = FALSE
    /\ tikzGenerating = FALSE
    /\ generatedTikz = FALSE
    /\ figures = FALSE
    /\ inflight = {}
    /\ nextId = 0

\* handleExport up to its await: every fetch is started.
HandleExport(style) ==
    /\ pc # "fetching"
    /\ isExporting = FALSE
    /\ isExporting' = TRUE
    /\ exportStyle' = style
    /\ tikzImagesMap' = <<>>
    /\ fetches' = [k \in 1..Len(TikzIndices(segments)) |-> Pending]
    /\ bodyContent' = <<>>
    /\ textRuns' = <<>>
    /\ pc' = "fetching"
    /\ UNCHANGED <<text, cleanText, segments, scanIndex, blocks, args, macro, katex>>
    /\ UNCHANGED appVars
    /\ UNCHANGED docVars
    /\ UNCHANGED importStatus
    /\ UNCHANGED libraryVars

\* The fetch of the k-th diagram segment settles: its callback stores the image
\* under the segment's code, or catches the failure.
FetchSettled(k, outcome) ==
    /\ pc = "fetching"
    /\ fetches[k] = Pending
    /\ fetches' = [fetches EXCEPT ![k] = outcome]
    /\ tikzImagesMap' =
           IF outcome \in FetchFailures THEN tikzImagesMap
           ELSE LET code == segments[TikzIndices(segments)[k]].content
                IN  [c \in DOMAIN tikzImagesMap \cup {code} |->
                        IF c = code
                        THEN [width |-> outcome.width, height |-> outcome.height]
                        ELSE tikzImagesMap[c]]
    /\ UNCHANGED <<isExporting, exportStyle, katex, bodyContent, textRuns>>
    /\ UNCHANGED textVars
    /\ UNCHANGED appVars
    /\ UNCHANGED docVars
    /\ UNCHANGED importStatus
    /\ UNCHANGED libraryVars

\* A mutant of AllSettled: the first promise to settle ends the wait.
AllSettledOrFirst(f) == \A k \in DOMAIN f : k > 1 \/ f[k] # Pending

\* Promise.all(...) has every promise settled.
AllSettled(f) == \A k \in DOMAIN f : f[k] # Pending

\* The rest of handleExport: the document is generated and packaged; the
\* packaging succeeds and the file is downloaded, or fails and is reported.
ExportAssembled(packaged) ==
    /\ pc = "fetching"
    /\ AllSettled(fetches)
    /\ bodyContent' =
           GenerateWordCompatibleFile(segments, isRichText, exportStyle, tikzImagesMap)
    /\ textRuns' = TextRunsOf(segments, isRichText)
    /\ pc' = IF packaged THEN "exported" ELSE "export-failed"
    /\ isExporting' = FALSE
    /\ UNCHANGED <<text, cleanText, segments, scanIndex, blocks, args, macro>>
    /\ UNCHANGED <<exportStyle, fetches, tikzImagesMap, katex>>
    /\ UNCHANGED appVars
    /\ UNCHANGED docVars
    /\ UNCHANGED importStatus
    /\ UNCHANGED libraryVars

ExportNext ==
    \/ \E style \in ExportStyles : HandleExport(style)
    \/ \E k \in DOMAIN fetches, outcome \in FetchOutcomes : FetchSettled(k, outcome)
    \/ \E packaged \in BOOLEAN : ExportAssembled(packaged)

ExportSpec == ExportInit /\ [][ExportNext]_vars

(***************************************************************************)
(* Properties of the export                                                *)
(***************************************************************************)

\* The pieces of a body that render a diagram segment, in their order.
IsTikzPiece(p) == p.tag \in {"img", "tikz-error"}
TikzPieces(body) == SelectSeq(body, IsTikzPiece)

\* The export has run to its end.
ExportOver == pc \in {"exported", "export-failed"}

\* The code of the k-th diagram segment.
CodeOf(k) == segments[TikzIndices(segments)[k]].content

\* Every fetch is started by the click, and the body is not built while one of
\* them is pending.
FetchesStartedTogetherAndAwaited ==
    /\ pc = "fetching" => DOMAIN fetches = 1..Len(TikzIndices(segments))
    /\ (\E k \in DOMAIN fetches : fetches[k] = Pending)
           => (bodyContent = <<>> /\ ~ ExportOver)
    /\ ExportOver => Len(TikzPieces(bodyContent)) = Len(fetches)

\* C11 as stated: every fetch of an export is started together and the
\* document is assembled only after all of them have settled; the diagram
\* segments rendered as the error marker are exactly those whose own fetch
\* failed, and every other diagram segment is rendered with its image.
C11_ErrorMarkerIffOwnFetchFailed ==
    /\ FetchesStartedTogetherAndAwaited
    /\ ExportOver =>
           \A k \in DOMAIN fetches :
               (TikzPieces(bodyContent)[k].tag = "tikz-error")
                   <=> (fetches[k] \in FetchFailures)

\* C11, amended: every fetch of an export is started together and the document
\* is assembled only after all of them have settled; a diagram segment is
\* rendered as the error marker exactly when every fetch for a segment with
\* the same code failed, and with an image otherwise.
C11_ErrorMarkerIffNoFetchOfCodeSucceeded ==
    /\ FetchesStartedTogetherAndAwaited
    /\ ExportOver =>
           \A k \in DOMAIN fetches :
               (TikzPieces(bodyContent)[k].tag = "tikz-error")
                   <=> (\A j \in DOMAIN fetches :
                            CodeOf(j) = CodeOf(k) => fetches[j] \in FetchFailures)

\* An export is over in which one fetch failed and another succeeded, and the
\* two segments are rendered as the error marker and as an image.
C11_Witness ==
    /\ ExportOver
    /\ \E k, j \in DOMAIN fetches :
           /\ fetches[k] \in FetchFailures
           /\ fetches[j] \notin FetchFailures
           /\ TikzPieces(bodyContent)[k].tag = "tikz-error"
           /\ TikzPieces(bodyContent)[j].tag = "img"

\* The pieces of a body that render a math segment: each math segment gives
\* exactly one of them.
IsMathOutput(p) == p.tag \in {"math", "equation", "equation-error", "latex-error"}

MathSegments == {i \in 1..Len(segments) : segments[i].type = "math"}
MathOutputs == {q \in 1..Len(bodyContent) : IsMathOutput(bodyContent[q])}

\* The position in the body of the output of the math segment i.
OutputOf(i) ==
    CHOOSE q \in MathOutputs :
        Cardinality({q2 \in MathOutputs : q2 <= q})
            = Cardinality({i2 \in MathSegments : i2 <= i})

Whitespace == {" ", "\n", "\r", "\t", "U+00A0"}
OpeningBrackets == {"(", "[", "{"}
ClosingPunctuation == {".", ",", ";", "!", "?", ":", ")", "]", "}"}

\* The segment before i is a text that does not end in whitespace or an
\* opening bracket.
TextBeforeNeedsSpace(i) ==
    /\ i > 1
    /\ segments[i - 1].type = "text"
    /\ LET c == segments[i - 1].content
       IN  c = <<>> \/ c[Len(c)] \notin Whitespace \cup OpeningBrackets

\* The segment after i is a text that does not start with whitespace or
\* closing punctuation.
TextAfterNeedsSpace(i) ==
    /\ i < Len(segments)
    /\ segments[i + 1].type = "text"
    /\ LET c == segments[i + 1].content
       IN  c = <<>> \/ c[1] \notin Whitespace \cup ClosingPunctuation

\* A non-breaking space is written just before, and just after, the output at q.
\* (The non-breaking space a text run gets for its own first or last blank
\* is inside the text run.)
SpaceBefore(q) == q > 1 /\ bodyContent[q - 1].tag = "nbsp"
SpaceAfter(q) == q < Len(bodyContent) /\ bodyContent[q + 1].tag = "nbsp"

SpacesAsNeeded(i) ==
    /\ SpaceBefore(OutputOf(i)) <=> TextBeforeNeedsSpace(i)
    /\ SpaceAfter(OutputOf(i)) <=> TextAfterNeedsSpace(i)

\* C13 as stated: for every inline math segment a non-breaking space is
\* emitted before the formula exactly when the preceding segment is a text
\* that does not end in whitespace or an opening bracket, and after it exactly
\* when the following segment is a text that does not start with whitespace
\* or closing punctuation.
C13_SpacesAroundInlineMath ==
    ExportOver =>
        /\ Cardinality(MathOutputs) = Cardinality(MathSegments)
        /\ \A i \in MathSegments : ~ segments[i].displayMode => SpacesAsNeeded(i)

\* C13, amended: the same for every inline math segment whose formula KaTeX
\* renders to MathML; a formula that is not rendered gives an error marker
\* with no space before or after it.  For "so," + x + "la" (a-grave), x
\* rendered, both spaces are emitted.
C13_SpacesAroundRenderedInlineMath ==
    ExportOver =>
        /\ Cardinality(MathOutputs) = Cardinality(MathSegments)
        /\ \A i \in MathSegments :
               ~ segments[i].displayMode =>
                   IF katex[segments[i].content] = "math"
                   THEN SpacesAsNeeded(i)
                   ELSE ~ SpaceBefore(OutputOf(i)) /\ ~ SpaceAfter(OutputOf(i))
        /\ (text = So \o InlineX \o La /\ katex[<<"x">>] = "math")
               => \E q \in MathOutputs : SpaceBefore(q) /\ SpaceAfter(q)

\* The export of "so," + x + "la" is over, with a space on both sides of x.
C13_Witness ==
    /\ ExportOver
    /\ text = So \o InlineX \o La
    /\ Len(segments) = 3
    /\ \E q \in MathOutputs :
           bodyContent[q].tag = "math" /\ SpaceBefore(q) /\ SpaceAfter(q)

\* The template values in which two profiles differ.
TemplateFields ==
    {"pageMargin", "orientation", "fontSize", "fontFamily", "lineHeight",
     "extraCss", "headingColor1", "headingColor2", "tableHeaderBg"}

DifferingFields(style1, style2) ==
    {f \in TemplateFields : TemplateOf(style1)[f] # TemplateOf(style2)[f]}

\* The other one of the two profiles "minimal" and "standard".
Counterpart(style) == IF style = "minimal" THEN "standard" ELSE "minimal"

\* C14: whatever the segments, the rich-markup flag and the image map are, the
\* body of the document exported under the "minimal" profile is the body
\* exported under the "standard" profile; the two documents differ only in
\* template values: the margin, the line height and the colors.
C14_MinimalBodyIsStandardBody ==
    /\ DifferingFields("minimal", "standard")
           \subseteq {"pageMargin", "lineHeight", "headingColor1", "headingColor2",
                      "tableHeaderBg"}
    /\ (ExportOver /\ exportStyle \in {"minimal", "standard"}) =>
           bodyContent =
               GenerateWordCompatibleFile(segments, isRichText,
                                          Counterpart(exportStyle), tikzImagesMap)

\* An export under the "minimal" profile is over, of a plain-text document with
\* a long question, a diagram that was fetched and a formula.
C14_Witness ==
    /\ ExportOver
    /\ exportStyle = "minimal"
    /\ ~ isRichText
    /\ \E q \in DOMAIN bodyContent :
           bodyContent[q].tag = "text-run" /\ NeedsWritingLines(bodyContent[q].arg)
    /\ \E q \in DOMAIN bodyContent : bodyContent[q].tag = "img"
    /\ \E q \in DOMAIN bodyContent : bodyContent[q].tag \in {"math", "equation"}

\* The piece of a body that carries a segment's content or its error marker:
\* each segment gives exactly one of them.
SegmentTypeOf(p) ==
    CASE p.tag \in {"text-run", "rich-text"} -> "text"
      [] p.tag \in {"img", "tikz-error"} -> "tikz"
      [] IsMathOutput(p) -> "math"
      [] OTHER -> "none"

IsSegmentOutput(p) == SegmentTypeOf(p) # "none"
SegmentOutputs(body) == SelectSeq(body, IsSegmentOutput)

\* C15: under every profile the outputs of the segments are in the body in the
\* order of the segments, one output for each segment: none is dropped,
\* duplicated or moved.
C15_OutputsInSegmentOrder ==
    ExportOver =>
        LET outputs == SegmentOutputs(bodyContent)
        IN  /\ Len(outputs) = Len(segments)
            /\ \A i \in 1..Len(segments) :
                   /\ SegmentTypeOf(outputs[i]) = segments[i].type
                   /\ outputs[i].tag \in {"text-run", "rich-text", "img", "math", "equation"}
                          => outputs[i].arg = segments[i].content

\* An export under the flashcards profile is over, of a document with a text,
\* a diagram and an inline formula, which is not put in a card.
C15_Witness ==
    /\ ExportOver
    /\ exportStyle = "flashcards"
    /\ \E i, j, k \in 1..Len(segments) :
           /\ segments[i].type = "text"
           /\ segments[j].type = "tikz"
           /\ segments[k].type = "math" /\ ~ segments[k].displayMode
    /\ Len(SegmentOutputs(bodyContent)) = 3

(***************************************************************************)
(* Properties of the App's document                                        *)
(***************************************************************************)

\* A text with nothing but whitespace in it.
IsBlank(s) == \A p \in 1..Len(s) : s[p] \in Whitespace

\* rawText becomes the text it is now, two newlines, and content.
AppendedAfterSeparator(content) == rawText' = rawText \o <<"\n", "\n">> \o content

\* The same, without the newlines when the text is blank.
AppendedAfterSeparatorUnlessBlank(content) ==
    rawText' = rawText \o (IF IsBlank(rawText) THEN <<>> ELSE <<"\n", "\n">>) \o content

InsertedContents == {<<"question">>, <<"worksheet">>, TikzBlock}

\* C17: when a content transform completes successfully, the content that an
\* insertion (question generator, worksheet generator, TikZ library insert)
\* has put into the text since the transform was started is still in the text.
C17_InsertedContentKept ==
    [][\A r \in inflight :
           HandleAiTransformSettled(r, TRUE) =>
               \A c \in InsertedContents :
                   (Includes(rawText, c) /\ ~ Includes(r.content, c))
                       => Includes(rawText', c)]_vars

\* C18: when the timer of the TeX-to-Word action fires, the text becomes the
\* Normalizer applied to the text as it is at that moment, so that an edit
\* made since the click is in the result.
C18_ConvertsCurrentText ==
    [][\A r \in inflight :
           TexToWordTimerFired(r) => rawText' = PreprocessLatexExam(rawText)]_vars

(***************************************************************************)
(* The library tree: TikzLibraryModal's tree actions and bankService       *)
(***************************************************************************)

\* At most MaxNodes nodes are added to the default tree at a time, and the
\* clock is read at at most MaxTicks + 1 different milliseconds.
MaxNodes == 2
MaxTicks == 1

\* The titles typed into the inputs of the tree.
Titles == {"Ten moi"}

\* The parts of an id that have "grade" in them.
GradeWords == {"grade_10"}

\* addingToNodeId.includes('grade')
IncludesGrade(id) == \E k \in DOMAIN id : id[k] \in GradeWords

\* Date.now().toString(36) at the tick n
Stamp(n) == ToString(n)

\* The nodes of a tree in the order the traversals visit them: a node, then
\* its children.
RECURSIVE Flatten(_)
Flatten(nodes) ==
    IF nodes = <<>> THEN <<>>
    ELSE <<Head(nodes)>> \o Flatten(Head(nodes).children) \o Flatten(Tail(nodes))

\* The nodes of a tree, as a set.
NodesOf(nodes) == {Flatten(nodes)[k] : k \in DOMAIN Flatten(nodes)}

\* A node of this id is in the tree.
RECURSIVE Holds(_, _)
Holds(nodes, id) ==
    \E k \in DOMAIN nodes : nodes[k].id = id \/ Holds(nodes[k].children, id)

\* The first of the nodes at which a traversal for this id ends: the node of
\* this id or a node that has it below.
FirstWith(nodes, id) ==
    CHOOSE k \in DOMAIN nodes :
        /\ nodes[k].id = id \/ Holds(nodes[k].children, id)
        /\ \A j \in 1..(k - 1) : ~ (nodes[j].id = id \/ Holds(nodes[j].children, id))

\* addNewNode, traverse(nodes): newNode is pushed to the children of the first
\* node of the id parentId.
RECURSIVE TraverseAdd(_, _, _)
TraverseAdd(nodes, parentId, newNode) ==
    IF ~ Holds(nodes, parentId) THEN nodes
    ELSE LET k == FirstWith(nodes, parentId)
         IN  IF nodes[k].id = parentId
             THEN [nodes EXCEPT ![k].children = Append(@, newNode)]
             ELSE [nodes EXCEPT ![k].children = TraverseAdd(@, parentId, newNode)]

\* addNewNode(parentId, type, title) at the clock reading stamp: the tree it
\* stores.
AddNewNode(data, parentId, type, title, stamp) ==
    TraverseAdd(data, parentId, Node(parentId \o <<stamp>>, title, type, <<>>))

\* editNodeTitle(nodeId, newTitle): the tree it stores.
RECURSIVE EditNodeTitle(_, _, _)
EditNodeTitle(nodes, nodeId, newTitle) ==
    IF ~ Holds(nodes, nodeId) THEN nodes
    ELSE LET k == FirstWith(nodes, nodeId)
         IN  IF nodes[k].id = nodeId
             THEN [nodes EXCEPT ![k].title = newTitle]
             ELSE [nodes EXCEPT ![k].children = EditNodeTitle(@, nodeId, newTitle)]

\* deleteNode(nodeId): the tree it stores, the first node of this id spliced
\* out of the array that holds it.
RECURSIVE DeleteNode(_, _)
DeleteNode(nodes, nodeId) ==
    IF ~ Holds(nodes, nodeId) THEN nodes
    ELSE LET k == FirstWith(nodes, nodeId)
         IN  IF nodes[k].id = nodeId
             THEN SubSeq(nodes, 1, k - 1) \o SubSeq(nodes, k + 1, Len(nodes))
             ELSE [nodes EXCEPT ![k].children = DeleteNode(@, nodeId)]

\* A run of the tree actions starts with the library as nothing has been
\* stored in it.
BankInit ==
    /\ pc = "bank"
    /\ text = <<>>
    /\ cleanText = <<>>
    /\ segments = <<>>
    /\ blocks = <<>>
    /\ scanIndex = 1
    /\ args = <<>>
    /\ macro = "none"
    /\ AppIdle

\* The clock of the machine comes to its next millisecond: whether it has,
\* between two readings of Date.now(), is not the program's to decide.
Tick ==
    /\ now < MaxTicks
    /\ now' = now + 1
    /\ UNCHANGED <<bankData, addingToNodeId, editingNodeId>>
    /\ UNCHANGED <<textVars, appVars, docVars, importStatus, exportVars, saveVars>>

\* The "add a child" button of a node, which a lesson does not have:
\* setAddingToNodeId(node.id).
StartAdding(node) ==
    /\ node \in NodesOf(bankData)
    /\ node.type # "lesson"
    /\ addingToNodeId' = node.id
    /\ UNCHANGED <<bankData, now, editingNodeId>>
    /\ UNCHANGED <<textVars, appVars, docVars, importStatus, exportVars, saveVars>>

\* The cancel button of the input: setAddingToNodeId(null).
CancelAdding ==
    /\ addingToNodeId # <<>>
    /\ addingToNodeId' = <<>>
    /\ UNCHANGED <<bankData, now, editingNodeId>>
    /\ UNCHANGED <<textVars, appVars, docVars, importStatus, exportVars, saveVars>>

\* handleAddNode, with the title typed into the input.
HandleAddNode(title) ==
    /\ addingToNodeId # <<>>             \* if (!addingToNodeId || ...) return;
    /\ Len(Flatten(bankData)) < Len(Flatten(DEFAULT_STRUCTURE)) + MaxNodes
    /\ LET type == IF IncludesGrade(addingToNodeId) THEN "chapter" ELSE "lesson"
           data == AddNewNode(bankData, addingToNodeId, type, title, Stamp(now))
       IN  /\ bankData' = data
           /\ addingToNodeId' =
                  IF Holds(bankData, addingToNodeId) THEN <<>> ELSE addingToNodeId
    /\ UNCHANGED <<now, editingNodeId>>
    /\ UNCHANGED <<textVars, appVars, docVars, importStatus, exportVars, saveVars>>

\* The "rename" button of a node: setEditingNodeId(node.id).
StartEditing(node) ==
    /\ node \in NodesOf(bankData)
    /\ editingNodeId' = node.id
    /\ UNCHANGED <<bankData, now, addingToNodeId>>
    /\ UNCHANGED <<textVars, appVars, docVars, importStatus, exportVars, saveVars>>

\* The cancel button of the input: setEditingNodeId(null).
CancelEditing ==
    /\ editingNodeId # <<>>
    /\ editingNodeId' = <<>>
    /\ UNCHANGED <<bankData, now, addingToNodeId>>
    /\ UNCHANGED <<textVars, appVars, docVars, importStatus, exportVars, saveVars>>

\* handleEditNode, with the title typed into the input.
HandleEditNode(title) ==
    /\ editingNodeId # <<>>              \* if (!editingNodeId || ...) return;
    /\ bankData' = EditNodeTitle(bankData, editingNodeId, title)
    /\ editingNodeId' = IF Holds(bankData, editingNodeId) THEN <<>> ELSE editingNodeId
    /\ UNCHANGED <<now, addingToNodeId>>
    /\ UNCHANGED <<textVars, appVars, docVars, importStatus, exportVars, saveVars>>

\* handleDeleteNode(id), confirmed by the user; a grade has no delete button.
HandleDeleteNode(node) ==
    /\ node \in NodesOf(bankData)
    /\ node.type # "grade"
    /\ bankData' = DeleteNode(bankData, node.id)
    /\ UNCHANGED <<addingToNodeId, editingNodeId, now>>
    /\ UNCHANGED <<textVars, appVars, docVars, importStatus, exportVars, saveVars>>

BankNext ==
    \/ Tick
    \/ \E node \in NodesOf(bankData) : StartAdding(node)
    \/ CancelAdding
    \/ \E title \in Titles : HandleAddNode(title)
    \/ \E node \in NodesOf(bankData) : StartEditing(node)
    \/ CancelEditing
    \/ \E title \in Titles : HandleEditNode(title)
    \/ \E node \in NodesOf(bankData) : HandleDeleteNode(node)

BankSpec == BankInit /\ [][BankNext]_vars

\* C19: in the stored tree every child of a grade node is a chapter and every
\* child of a chapter node is a lesson.
C19_HierarchyRespected ==
    \A node \in NodesOf(bankData) :
        \A k \in DOMAIN node.children :
            /\ node.type = "grade" => node.children[k].type = "chapter"
            /\ node.type = "chapter" => node.children[k].type = "lesson"

(***************************************************************************)
(* The save-to-bank modal: SaveToBankModal                                 *)
(***************************************************************************)

\* The documents the modal is opened on are made of at most MaxSavePieces
\* pieces, and at most MaxSaved saves are made in a run.
MaxSavePieces == 3
MaxSaved == 2

SavePieces == {Cau1, Cau2, <<"x">>, <<"\n">>}
SaveContents == TextsOf(SavePieces, MaxSavePieces)

\* The App with a document in it, the modal closed.
SaveInit ==
    /\ rawText \in SaveContents
    /\ pc = "save"
    /\ text = <<>>
    /\ cleanText = <<>>
    /\ segments = <<>>
    /\ blocks = <<>>
    /\ scanIndex = 1
    /\ args = <<>>
    /\ macro = "none"
    /\ LibraryIdle
    /\ isRichText = FALSE
    /\ importStatus = ""
    /\ ExportIdle
    /\ isImporting = FALSE
    /\ isGenerating = FALSE
    /\ isAdvancedMenuOpen = FALSE
    /\ modal = "none"
    /\ generatorPrompt = "blank"
    /\ wsGenerating = FALSE
    /\ tikzGenerating = FALSE
    /\ generatedTikz = FALSE
    /\ figures = FALSE
    /\ inflight = {}
    /\ nextId = 0

\* The save button of the header, setIsSaveBankModalOpen(true), and the effect
\* the modal runs when it is opened.  The selection is not reset.
OpenSaveModal ==
    /\ ~ isSaveBankModalOpen
    /\ isSaveBankModalOpen' = TRUE
    /\ isSaved' = FALSE
    /\ saveCount' = 0
    /\ LET questions == SmartSplitContent(rawText)
       IN  /\ detectedQuestions' = questions
           /\ selectedIndices' = DOMAIN questions
           /\ saveMode' = IF Len(questions) <= 1 THEN "full" ELSE "split"
    /\ UNCHANGED <<selectedGrade, selectedChapter, selectedLesson>>
    /\ UNCHANGED <<textVars, appVars, docVars, importStatus, exportVars, bankVars>>

\* onClose, from the close buttons or from the timer started by a save.
CloseSaveModal ==
    /\ isSaveBankModalOpen
    /\ isSaveBankModalOpen' = FALSE
    /\ UNCHANGED <<saveMode, detectedQuestions, selectedIndices, selectedGrade,
                   selectedChapter, selectedLesson, isSaved, saveCount>>
    /\ UNCHANGED <<textVars, appVars, docVars, importStatus, exportVars, bankVars>>

\* The two mode tabs: setSaveMode('split') and setSaveMode('full').
SetSaveMode(mode) ==
    /\ isSaveBankModalOpen
    /\ saveMode' = mode
    /\ UNCHANGED <<isSaveBankModalOpen, detectedQuestions, selectedIndices,
                   selectedGrade, selectedChapter, selectedLesson, isSaved, saveCount>>
    /\ UNCHANGED <<textVars, appVars, docVars, importStatus, exportVars, bankVars>>

\* toggleIndex(index), from the card of a question in the split view.
ToggleIndex(index) ==
    /\ isSaveBankModalOpen
    /\ saveMode = "split"
    /\ index \in DOMAIN detectedQuestions
    /\ selectedIndices' =
           IF index \in selectedIndices THEN selectedIndices \ {index}
           ELSE selectedIndices \cup {index}
    /\ UNCHANGED <<isSaveBankModalOpen, saveMode, detectedQuestions, selectedGrade,
                   selectedChapter, selectedLesson, isSaved, saveCount>>
    /\ UNCHANGED <<textVars, appVars, docVars, importStatus, exportVars, bankVars>>

\* toggleAll, from the button of the split view.
ToggleAll ==
    /\ isSaveBankModalOpen
    /\ saveMode = "split"
    /\ selectedIndices' =
           IF Cardinality(selectedIndices) = Len(detectedQuestions) THEN {}
           ELSE DOMAIN detectedQuestions
    /\ UNCHANGED <<isSaveBankModalOpen, saveMode, detectedQuestions, selectedGrade,
                   selectedChapter, selectedLesson, isSaved, saveCount>>
    /\ UNCHANGED <<textVars, appVars, docVars, importStatus, exportVars, bankVars>>

\* nodes.find(n => n.id === id), as the place of the node found (0 for
\* undefined).
Find(nodes, id) ==
    IF \E k \in DOMAIN nodes : nodes[k].id = id
    THEN CHOOSE k \in DOMAIN nodes :
             nodes[k].id = id /\ \A j \in 1..(k - 1) : nodes[j].id # id
    ELSE 0

\* activeGrade?.children and activeChapter?.children: the chapters and the
\* lessons the columns of the modal show.  The modal shows the tree it read
\* when it was opened, and the tree is not edited while it is open.
ActiveChapters ==
    LET g == Find(bankData, selectedGrade)
    IN  IF g = 0 THEN <<>> ELSE bankData[g].children

ActiveLessons ==
    LET c == Find(ActiveChapters, selectedChapter)
    IN  IF c = 0 THEN <<>> ELSE ActiveChapters[c].children

\* The button of a grade in the first column.
SelectGrade(grade) ==
    /\ isSaveBankModalOpen
    /\ \E k \in DOMAIN bankData : bankData[k] = grade
    /\ selectedGrade' = grade.id
    /\ selectedChapter' = <<>>
    /\ selectedLesson' = <<>>
    /\ UNCHANGED <<isSaveBankModalOpen, saveMode, detectedQuestions, selectedIndices,
                   isSaved, saveCount>>
    /\ UNCHANGED <<textVars, appVars, docVars, importStatus, exportVars, bankVars>>

\* The button of a chapter in the second column, shown once a grade is
\* selected.
SelectChapter(chapter) ==
    /\ isSaveBankModalOpen
    /\ selectedGrade # <<>>
    /\ \E k \in DOMAIN ActiveChapters : ActiveChapters[k] = chapter
    /\ selectedChapter' = chapter.id
    /\ selectedLesson' = <<>>
    /\ UNCHANGED <<isSaveBankModalOpen, saveMode, detectedQuestions, selectedIndices,
                   selectedGrade, isSaved, saveCount>>
    /\ UNCHANGED <<textVars, appVars, docVars, importStatus, exportVars, bankVars>>

\* The button of a lesson in the third column, shown once a chapter is
\* selected: setSelectedLesson(lesson.id).
SelectLesson(lesson) ==
    /\ isSaveBankModalOpen
    /\ selectedChapter # <<>>
    /\ \E k \in DOMAIN ActiveLessons : ActiveLessons[k] = lesson
    /\ selectedLesson' = lesson.id
    /\ UNCHANGED <<isSaveBankModalOpen, saveMode, detectedQuestions, selectedIndices,
                   selectedGrade, selectedChapter, isSaved, saveCount>>
    /\ UNCHANGED <<textVars, appVars, docVars, importStatus, exportVars, bankVars>>

\* Every question, whatever the indices in S.
RECURSIVE EveryQuestionFrom(_, _, _)
EveryQuestionFrom(questions, S, index) ==
    IF index > Len(questions) THEN <<>>
    ELSE <<questions[index]>> \o EveryQuestionFrom(questions, S, index + 1)

\* The questions of the indices in S, in their order.
RECURSIVE SelectedFrom(_, _, _)
SelectedFrom(questions, S, index) ==
    IF index > Len(questions) THEN <<>>
    ELSE (IF index \in S THEN <<questions[index]>> ELSE <<>>)
         \o SelectedFrom(questions, S, index + 1)

\* The BankQuestion saveToBank makes of a content at the clock reading
\* timestamp.
NewQuestion(content, timestamp) == [content |-> content, timestamp |-> timestamp]

\* saveToBank with the new question pushed to every lesson of the id lessonId
\* in the chapter.
SaveToBankEveryLesson(data, gradeId, chapterId, lessonId, content, timestamp) ==
    LET g == Find(data, gradeId)
    IN  IF g = 0 THEN [ok |-> FALSE, data |-> data]
        ELSE LET c == Find(data[g].children, chapterId)
             IN  IF c = 0 THEN [ok |-> FALSE, data |-> data]
                 ELSE LET lessons == data[g].children[c].children
                      IN  IF Find(lessons, lessonId) = 0
                          THEN [ok |-> FALSE, data |-> data]
                          ELSE [ok |-> TRUE,
                                data |-> [data EXCEPT ![g].children[c].children =
                                    [l \in DOMAIN lessons |->
                                        IF lessons[l].id = lessonId
                                        THEN [lessons[l] EXCEPT !.questions =
                                                 Append(@, NewQuestion(content, timestamp))]
                                        ELSE lessons[l]]]]

\* saveToBank(gradeId, chapterId, lessonId, content): the value it returns
\* and the tree that is stored when it has returned.  Every grade and every
\* chapter of the trees here has a children array.
SaveToBank(data, gradeId, chapterId, lessonId, content, timestamp) ==
    LET g == Find(data, gradeId)
    IN  IF g = 0 THEN [ok |-> FALSE, data |-> data]
        ELSE LET c == Find(data[g].children, chapterId)
             IN  IF c = 0 THEN [ok |-> FALSE, data |-> data]
                 ELSE LET l == Find(data[g].children[c].children, lessonId)
                      IN  IF l = 0 THEN [ok |-> FALSE, data |-> data]
                          ELSE [ok |-> TRUE,
                                data |-> [data EXCEPT
                                    ![g].children[c].children[l].questions =
                                        Append(@, NewQuestion(content, timestamp))]]

\* handleSave in split mode, the forEach over the detected questions: the
\* number of calls of saveToBank that returned true and the tree stored after
\* the last of them.
RECURSIVE SaveChunks(_, _, _, _, _, _)
SaveChunks(data, gradeId, chapterId, lessonId, chunks, timestamp) ==
    IF chunks = <<>> THEN [successCount |-> 0, data |-> data]
    ELSE LET saved == SaveToBank(data, gradeId, chapterId, lessonId,
                                 Head(chunks), timestamp)
             rest == SaveChunks(saved.data, gradeId, chapterId, lessonId,
                                Tail(chunks), timestamp)
         IN  [successCount |-> (IF saved.ok THEN 1 ELSE 0) + rest.successCount,
              data |-> rest.data]

\* The questions stored in the tree, in the order of its nodes.
RECURSIVE QuestionsOf(_)
QuestionsOf(flat) ==
    IF flat = <<>> THEN <<>> ELSE Head(flat).questions \o QuestionsOf(Tail(flat))

\* disabled={!selectedLesson || (saveMode === 'split' && selectedIndices.size === 0)}
SaveEnabled ==
    /\ isSaveBankModalOpen
    /\ ~ isSaved                         \* the button is replaced once saved
    /\ selectedLesson # <<>>
    /\ ~ (saveMode = "split" /\ selectedIndices = {})

\* handleSave: the whole content, or each selected question, is stored in the
\* lesson by saveToBank; when nothing was stored an alert is shown and nothing
\* changes.
HandleSave ==
    /\ SaveEnabled
    /\ Len(QuestionsOf(Flatten(bankData))) < MaxSaved
    /\ LET chunks == IF saveMode = "full" THEN <<rawText>>
                     ELSE SelectedFrom(detectedQuestions, selectedIndices, 1)
           saved == SaveChunks(bankData, selectedGrade, selectedChapter,
                               selectedLesson, chunks, now)
       IN  IF selectedGrade = <<>> \/ selectedChapter = <<>> \/ saved.successCount = 0
           THEN UNCHANGED <<bankData, saveCount, isSaved>>
           ELSE /\ bankData' = saved.data
                /\ saveCount' = saved.successCount
                /\ isSaved' = TRUE
    /\ UNCHANGED <<isSaveBankModalOpen, saveMode, detectedQuestions, selectedIndices,
                   selectedGrade, selectedChapter, selectedLesson>>
    /\ UNCHANGED <<addingToNodeId, editingNodeId, now>>
    /\ UNCHANGED <<textVars, appVars, docVars, importStatus, exportVars>>

SaveNext ==
    \/ OpenSaveModal
    \/ CloseSaveModal
    \/ \E mode \in {"split", "full"} : SetSaveMode(mode)
    \/ \E index \in DOMAIN detectedQuestions : ToggleIndex(index)
    \/ ToggleAll
    \/ \E grade \in NodesOf(bankData) : SelectGrade(grade)
    \/ \E chapter \in NodesOf(bankData) : SelectChapter(chapter)
    \/ \E lesson \in NodesOf(bankData) : SelectLesson(lesson)
    \/ HandleSave

SaveSpec == SaveInit /\ [][SaveNext]_vars

\* C20: while the modal is open on a content in which the splitter finds no
\* question structure, only the full-document save is offered: the split view
\* with its per-question selection is not shown.
C20_OnlyFullSaveOffered ==
    (isSaveBankModalOpen /\ MarkerStarts(NormalizeLineEndings(rawText)) = {})
        => saveMode = "full"

(***************************************************************************)
(* The classification of the matches of parseContent                       *)
(***************************************************************************)

\* The texts given to parseContent here are made of at most
\* MaxClassifierPieces pieces.
MaxClassifierPieces == 2

\* \begin{name}x\end{name}, or \begin{name*}x\end{name*}.
EnvBlock(name, starred) ==
    LET tag == <<"{">> \o name \o (IF starred THEN <<"*">> ELSE <<>>) \o <<"}">>
    IN  K_begin \o tag \o <<"x">> \o K_end \o tag

ClassifierPieces ==
    {EnvBlock(name, starred) : name \in EnvNames, starred \in BOOLEAN}
    \cup { TikzBlock, BracketBlock, <<"$", "$", "x", "$", "$">>,
           <<"\\", "(", "x", "\\", ")">>, <<"$", "x", "$">>, <<"$", "$">>,
           <<"x">>, <<" ">> }

ClassifierTexts == TextsOf(ClassifierPieces, MaxClassifierPieces)

\* parseContent is called on a text.
ClassifierInit ==
    /\ text \in ClassifierTexts
    /\ args = <<>>
    /\ macro = "none"
    /\ NoResult
    /\ AppIdle

ClassifierNext == ParseContentStep

ClassifierSpec == ClassifierInit /\ [][ClassifierNext]_vars

\* The segments of segs that are not text segments, in order.
RECURSIVE Classified(_)
Classified(segs) ==
    IF segs = <<>> THEN <<>>
    ELSE (IF Head(segs).type = "text" THEN <<>> ELSE <<Head(segs)>>)
         \o Classified(Tail(segs))

\* The kind and display mode that go with each alternative of the pattern.
KindOf(alt) == IF alt = "tikz" THEN "tikz" ELSE "math"
DisplayOf(alt) == alt \in {"tikz", "env", "dollars", "bracket"}

\* C21: every match is classified by the alternative that matched: a diagram
\* block gives a diagram segment in display mode; a named math environment
\* (starred or not), a $$...$$ span and a \[...\] span give a math segment in
\* display mode; a \(...\) span and a $...$ span give a math segment in inline
\* mode.
C21_ClassifiedByDelimiter ==
    pc = "parsed" =>
        LET ms == MatchesFrom(cleanText, 1)
            cs == Classified(segments)
        IN  /\ Len(cs) = Len(ms)
            /\ \A i \in 1..Len(ms) :
                  /\ cs[i].type = KindOf(ms[i].alt)
                  /\ cs[i].displayMode = DisplayOf(ms[i].alt)

(***************************************************************************)
(* Properties of the text runs of the export                               *)
(***************************************************************************)

\* The label of the line the Normalizer writes for \shortans{...}.
ShortAnswerLabel == SubSeq(R_DapAnNgan, 5, 16)

\* The positions of the page breaks of a text run.
PageBreaksOf(run) == {q \in 1..Len(run) : run[q] = "<page-break>"}

\* C22: in an export of plain text a page break is written before a line only
\* when the line begins a grading-guide, appendix or answer-key heading; the
\* short-answer label line written by the Normalizer for \shortans{...} gets
\* no page break and is not made a heading.
C22_NoPageBreakBeforeShortAnswer ==
    ExportOver =>
        \A i \in 1..Len(textRuns) : \A q \in PageBreaksOf(textRuns[i]) :
            /\ textRuns[i][q + 1] = "<h2>"
            /\ SectionWordEnd(textRuns[i], q + 2) # 0
            /\ ~ StartsWithAt(textRuns[i], q + 2, ShortAnswerLabel)

\* C23: a diagram segment whose code is in the image map is rendered as an
\* image whose width and height are the stored width and height divided by
\* four and rounded; only when a stored dimension is zero is the width 200 and
\* the height the one that keeps the stored proportions.  A diagram segment
\* whose code is not in the map is rendered as the error marker, and the
\* segments after it are rendered.
C23_ImageSizeIsQuarterOfStored ==
    ExportOver =>
        /\ Len(TikzPieces(bodyContent)) = Len(fetches)
        /\ \A k \in DOMAIN fetches :
               LET piece == TikzPieces(bodyContent)[k]
               IN  IF CodeOf(k) \in DOMAIN tikzImagesMap
                   THEN LET imgData == tikzImagesMap[CodeOf(k)]
                        IN  /\ piece.tag = "img"
                            /\ IF imgData.width # 0 /\ imgData.height # 0
                               THEN /\ piece.width = RoundDiv(imgData.width, 4)
                                    /\ piece.height = RoundDiv(imgData.height, 4)
                               ELSE /\ piece.width = 200
                                    /\ imgData.width # 0
                                    /\ piece.height =
                                           RoundDiv(200 * imgData.height, imgData.width)
                   ELSE piece.tag = "tikz-error"

\* The position in the body of the output of the segment i.
PositionOfSegment(i) ==
    CHOOSE q \in DOMAIN bodyContent :
        /\ IsSegmentOutput(bodyContent[q])
        /\ Cardinality({q2 \in 1..q : IsSegmentOutput(bodyContent[q2])}) = i

\* The writing lines are written right after the output of the segment i.
WritingLinesAfter(i) ==
    /\ PositionOfSegment(i) < Len(bodyContent)
    /\ bodyContent[PositionOfSegment(i) + 1].tag = "writing-lines"

\* The segment i is in the answer-key section of the document: the heading of
\* the section is in it or in a text before it.
InAnswerKeySection(i) ==
    \E j \in 1..i :
        /\ segments[j].type = "text"
        /\ \/ Includes(segments[j].content, K_HuongDanCham)
           \/ Includes(segments[j].content, K_DapAn)

\* C24: under the worksheet profile, for plain text, the three dotted lines
\* are written after a text segment exactly when it is longer than 50
\* characters, holds a question marker and is not in the answer-key section of
\* the document; no lines are written after a text of the answer-key section.
C24_NoLinesInAnswerKeySection ==
    (ExportOver /\ exportStyle = "worksheet" /\ ~ isRichText) =>
        \A i \in 1..Len(segments) :
            segments[i].type = "text" =>
                (WritingLinesAfter(i)
                     <=> /\ Len(segments[i].content) > 50
                         /\ \/ Includes(segments[i].content, K_Cau)
                            \/ Includes(segments[i].content, K_Bai)
                         /\ ~ InAnswerKeySection(i))

(***************************************************************************)
(* The scan loop of parseContent, one pass at a time                       *)
(***************************************************************************)

\* const cleanText = preprocessLatexExam(text); const segments = []; let
\* lastIndex = 0
ParseContentStarted ==
    /\ pc = "input"
    /\ cleanText' = PreprocessLatexExam(text)
    /\ segments' = <<>>
    /\ scanIndex' = 1
    /\ pc' = "scanning"
    /\ UNCHANGED <<text, blocks, args, macro>>
    /\ UNCHANGED <<appVars, docVars, restVars>>

\* A mutant of ScanPass: the scan goes on from the start of the match.
ScanPassFromMatchStart ==
    /\ pc = "scanning"
    /\ LET match == Exec(cleanText, scanIndex)
       IN  /\ match.index # 0
           /\ segments' =
                  segments
                  \o (IF match.index > scanIndex
                      THEN <<TextSegment(Slice(cleanText, scanIndex, match.index))>>
                      ELSE <<>>)
                  \o <<SegmentOf(Slice(cleanText, match.index, match.end))>>
           /\ scanIndex' = match.index
    /\ UNCHANGED <<pc, text, cleanText, blocks, args, macro>>
    /\ UNCHANGED <<appVars, docVars, restVars>>

\* One pass of the while loop: regex.exec finds a match, the text before it and
\* the segment of the match are pushed, and scanIndex = regex.scanIndex.
ScanPass ==
    /\ pc = "scanning"
    /\ LET match == Exec(cleanText, scanIndex)
       IN  /\ match.index # 0
           /\ segments' =
                  segments
                  \o (IF match.index > scanIndex
                      THEN <<TextSegment(Slice(cleanText, scanIndex, match.index))>>
                      ELSE <<>>)
                  \o <<SegmentOf(Slice(cleanText, match.index, match.end))>>
           /\ scanIndex' = match.end
    /\ UNCHANGED <<pc, text, cleanText, blocks, args, macro>>
    /\ UNCHANGED <<appVars, docVars, restVars>>

\* regex.exec returns null: the loop ends, the remaining text is pushed and
\* the segments are returned.
ScanOver ==
    /\ pc = "scanning"
    /\ Exec(cleanText, scanIndex).index = 0
    /\ segments' =
           segments
           \o (IF scanIndex <= Len(cleanText)
               THEN <<TextSegment(SliceFrom(cleanText, scanIndex))>> ELSE <<>>)
    /\ pc' = "parsed"
    /\ UNCHANGED <<text, cleanText, scanIndex, blocks, args, macro>>
    /\ UNCHANGED <<appVars, docVars, restVars>>

ScanNext == ParseContentStarted \/ ScanPass \/ ScanOver

\* parseContent runs on until it returns: WF_vars(ScanNext), written without
\* ENABLED.  ScanNext can take a step exactly when pc is not "parsed", and
\* every one of its steps changes vars.
ScanRunsOn == ([]<>(pc = "parsed")) \/ ([]<><<TRUE>>_vars)

ScanSpec == SegmenterInit /\ [][ScanNext]_vars /\ ScanRunsOn

\* Every pass of the loop moves scanIndex forward.
ScanAdvances ==
    (pc = "scanning" /\ pc' = "scanning") => scanIndex' > scanIndex

\* The segments a step pushes.
Pushed == SubSeq(segments', Len(segments) + 1, Len(segments'))

\* What a pass pushes is the text from scanIndex to the new scanIndex: a text
\* segment for the span before the match, when there is one, and the segment
\* of the match, whose content is the match or the match without its
\* delimiters.
PassCovers ==
    (pc = "scanning" /\ pc' = "scanning") =>
        /\ Len(Pushed) \in {1, 2}
        /\ Pushed[Len(Pushed)].type # "text"
        /\ LET before == IF Len(Pushed) = 2 THEN Pushed[1].content ELSE <<>>
               match == Slice(cleanText, scanIndex + Len(before), scanIndex')
               content == Pushed[Len(Pushed)].content
               delimiter == (Len(match) - Len(content)) \div 2
           IN  /\ Len(Pushed) = 2 => (Pushed[1].type = "text" /\ before # <<>>)
               /\ before = Slice(cleanText, scanIndex, scanIndex + Len(before))
               /\ Len(match) - Len(content) \in {0, 2, 4}
               /\ content = SubSeq(match, delimiter + 1, Len(match) - delimiter)

\* What the end of the loop pushes is the text from scanIndex on.
EndCovers ==
    (pc = "scanning" /\ pc' = "parsed") =>
        Pushed = IF scanIndex <= Len(cleanText)
                 THEN <<TextSegment(SliceFrom(cleanText, scanIndex))>>
                 ELSE <<>>

\* C25: parseContent terminates on every text and always returns segments:
\* every pass of the scan loop moves its position forward, every span outside
\* a match is pushed as a text segment, and the call comes to its return.
C25_ScanTerminates ==
    /\ [][ScanAdvances /\ PassCovers /\ EndCovers]_vars
    /\ <>(pc = "parsed")

\* parseContent has returned after more than one pass of the loop, with the
\* text after the last match as a text segment.
C25_Witness ==
    /\ pc = "parsed"
    /\ Len(MatchesFrom(cleanText, 1)) >= 2
    /\ Len(segments) >= 3
    /\ segments[Len(segments)].type = "text"

(***************************************************************************)
(* Properties of the busy flags                                            *)
(***************************************************************************)

\* The kinds of external call of the operations that set each busy flag.
ImportKinds == {"ocr", "read", "transform"}
BusyKinds == ImportKinds \cup {"question", "worksheet", "tikz", "export"}

\* The busy flag of the operation that makes a call of a kind.
BusyFlagOf(kind) ==
    CASE kind \in ImportKinds -> isImporting
      [] kind = "question" -> isGenerating
      [] kind = "worksheet" -> wsGenerating
      [] kind = "tikz" -> tikzGenerating
      [] kind = "export" -> isExporting

\* Two kinds of call are made by operations that set the same flag.
SameFlag(kind1, kind2) ==
    \/ kind1 = kind2
    \/ kind1 \in ImportKinds /\ kind2 \in ImportKinds

\* No busy flag is set without an outstanding call of an operation that sets
\* it: when every call has settled, every flag is clear.
NoFlagWithoutCall ==
    \A kind \in BusyKinds :
        BusyFlagOf(kind) => \E r \in inflight : SameFlag(r.kind, kind)

\* A call of r settles.
Settles(r) == r \in inflight /\ r \notin inflight'

\* C26: every operation that sets a busy flag clears it in the step in which
\* its external call settles, with success or with failure, and no flag is
\* set when no call of its operations is outstanding.
C26_BusyFlagsCleared ==
    /\ NoFlagWithoutCall
    /\ [][/\ NoFlagWithoutCall'
          /\ \A r \in inflight :
                 (Settles(r) /\ r.kind \in BusyKinds) => ~ BusyFlagOf(r.kind)']_vars

\* Two operations have run and the second call has failed: nothing is
\* outstanding and no flag is set.
C26_Witness ==
    /\ nextId = MaxRequests
    /\ inflight = {}
    /\ importStatus = "Error"
    /\ ~ isImporting /\ ~ isGenerating /\ ~ wsGenerating /\ ~ tikzGenerating
    /\ ~ isExporting

(***************************************************************************)
(* Properties of the stored tree                                           *)
(***************************************************************************)

\* C28: after any sequence of addNewNode, editNodeTitle and deleteNode from
\* the default tree, the ids of the nodes of the stored tree are pairwise
\* distinct, also when nodes are added under one parent within one
\* millisecond of the clock.
C28_NodeIdsDistinct ==
    LET flat == Flatten(bankData)
    IN  \A i, j \in DOMAIN flat : i # j => flat[i].id # flat[j].id

(***************************************************************************)
(* The save-to-bank modal and the tree edits of the library modal          *)
(***************************************************************************)

\* The tree holds at most MaxLibraryNodes added nodes and at most
\* MaxLibrarySaved questions at a time.
MaxLibraryNodes == 1
MaxLibrarySaved == 1

\* A document of two questions and a document of none.
LibraryContents == {Cau1 \o <<"\n">> \o Cau2, <<"x">>}

\* The App with a document in it, both modals as constructed.
LibraryInit ==
    /\ rawText \in LibraryContents
    /\ pc = "library"
    /\ text = <<>>
    /\ cleanText = <<>>
    /\ segments = <<>>
    /\ blocks = <<>>
    /\ scanIndex = 1
    /\ args = <<>>
    /\ macro = "none"
    /\ LibraryIdle
    /\ isRichText = FALSE
    /\ importStatus = ""
    /\ ExportIdle
    /\ isImporting = FALSE
    /\ isGenerating = FALSE
    /\ isAdvancedMenuOpen = FALSE
    /\ modal = "none"
    /\ generatorPrompt = "blank"
    /\ wsGenerating = FALSE
    /\ tikzGenerating = FALSE
    /\ generatedTikz = FALSE
    /\ figures = FALSE
    /\ inflight = {}
    /\ nextId = 0

\* An input of the tree is open.
InputOpen == addingToNodeId # <<>> \/ editingNodeId # <<>>

\* The handlers of the save-to-bank modal and the tree actions of the library
\* modal, which is not reached while the save-to-bank modal covers the page.
\* The user of these runs has one input of the tree open at a time and
\* confirms or cancels it before anything else is done.
LibraryNext ==
    \/ ~ InputOpen /\ OpenSaveModal
    \/ CloseSaveModal
    \/ \E mode \in {"split", "full"} : SetSaveMode(mode)
    \/ \E index \in DOMAIN detectedQuestions : ToggleIndex(index)
    \/ ToggleAll
    \/ \E grade \in NodesOf(bankData) : SelectGrade(grade)
    \/ \E chapter \in NodesOf(bankData) : SelectChapter(chapter)
    \/ \E lesson \in NodesOf(bankData) : SelectLesson(lesson)
    \/ /\ Len(QuestionsOf(Flatten(bankData))) < MaxLibrarySaved
       /\ HandleSave
    \/ /\ ~ isSaveBankModalOpen /\ ~ InputOpen
       /\ \E node \in NodesOf(bankData) : StartAdding(node)
    \/ ~ isSaveBankModalOpen /\ CancelAdding
    \/ /\ ~ isSaveBankModalOpen
       /\ Len(Flatten(bankData)) < Len(Flatten(DEFAULT_STRUCTURE)) + MaxLibraryNodes
       /\ \E title \in Titles : HandleAddNode(title)
    \/ /\ ~ isSaveBankModalOpen /\ ~ InputOpen
       /\ \E node \in NodesOf(bankData) : StartEditing(node)
    \/ ~ isSaveBankModalOpen /\ CancelEditing
    \/ ~ isSaveBankModalOpen /\ \E title \in Titles : HandleEditNode(title)
    \/ /\ ~ isSaveBankModalOpen /\ ~ InputOpen
       /\ \E node \in NodesOf(bankData) : HandleDeleteNode(node)

LibrarySpec == LibraryInit /\ [][LibraryNext]_vars

\* A grade of the id gradeId holds a chapter of the id chapterId that holds a
\* lesson of the id lessonId.
PathExists(data, gradeId, chapterId, lessonId) ==
    \E g \in DOMAIN data :
        /\ data[g].id = gradeId
        /\ \E c \in DOMAIN data[g].children :
               /\ data[g].children[c].id = chapterId
               /\ \E l \in DOMAIN data[g].children[c].children :
                      data[g].children[c].children[l].id = lessonId

\* C27: whenever the Save button of the save-to-bank modal is enabled, the
\* selected grade, chapter and lesson ids are those of a grade, a chapter in
\* it and a lesson in that chapter of the stored tree.
C27_SaveEnabledOnExistingPath ==
    SaveEnabled => PathExists(bankData, selectedGrade, selectedChapter, selectedLesson)

(***************************************************************************)
(* Properties of a save in split mode                                      *)
(***************************************************************************)

\* The questions stored in the lesson that a grade, a chapter and a lesson id
\* lead to (<<>> when they lead to none).
LessonQuestions(data, gradeId, chapterId, lessonId) ==
    LET g == Find(data, gradeId)
        chapters == IF g = 0 THEN <<>> ELSE data[g].children
        c == Find(chapters, chapterId)
        lessons == IF c = 0 THEN <<>> ELSE chapters[c].children
        l == Find(lessons, lessonId)
    IN  IF l = 0 THEN <<>> ELSE lessons[l].questions

\* The k-th of the indices in S, from the least.
KthOf(S, k) == CHOOSE i \in S : Cardinality({j \in S : j < i}) = k - 1

\* The selected indices are indices of detected blocks.
SelectedAreDetected == selectedIndices \subseteq DOMAIN detectedQuestions

\* A step is a successful save in split mode.
SplitSaved == saveMode = "split" /\ ~ isSaved /\ isSaved'

\* What a successful save in split mode appends and reports.
SplitSaveStoresSelected ==
    LET before == LessonQuestions(bankData, selectedGrade, selectedChapter,
                                  selectedLesson)
        after == LessonQuestions(bankData', selectedGrade, selectedChapter,
                                 selectedLesson)
        n == Cardinality(selectedIndices)
    IN  /\ detectedQuestions = SmartSplitContent(rawText)
        /\ Len(after) = Len(before) + n
        /\ SubSeq(after, 1, Len(before)) = before
        /\ \A k \in 1..n :
               after[Len(before) + k].content = detectedQuestions[KthOf(selectedIndices, k)]
        /\ saveCount' = n

\* C30: in split mode a successful save appends to the chosen lesson exactly
\* the detected blocks whose indices are selected, one entry for each, in the
\* order of the document, and the count it reports is the number of selected
\* blocks; the selected indices are always indices of detected blocks.
C30_SplitSaveStoresSelected ==
    /\ SelectedAreDetected
    /\ [][SelectedAreDetected' /\ (SplitSaved => SplitSaveStoresSelected)]_vars

\* A save in split mode of one of two detected blocks has been made.
C30_Witness ==
    /\ isSaved
    /\ saveMode = "split"
    /\ Len(detectedQuestions) = 2
    /\ selectedIndices = {2}
    /\ saveCount = 1
    /\ Len(LessonQuestions(bankData, selectedGrade, selectedChapter, selectedLesson)) = 2

(***************************************************************************)
(* bankService, its functions called one after the other                   *)
(***************************************************************************)

\* The contents given to saveToBank.
ServiceContents == {<<"x">>, Cau1}

\* The ids given to the functions: those of the tree and one of no node.
NoNode == <<"grade_11">>
IdsOf(nodes) == {nodes[k].id : k \in DOMAIN nodes}
ServiceIds == IdsOf(Flatten(bankData)) \cup {NoNode}

\* The nodes held by the nodes of a sequence.
RECURSIVE ChildrenOf(_)
ChildrenOf(nodes) ==
    IF nodes = <<>> THEN <<>> ELSE Head(nodes).children \o ChildrenOf(Tail(nodes))

\* The ids given to saveToBank: for the grade an id of a grade, for the
\* chapter an id of a node held by a grade, for the lesson an id of a node
\* held by one of these, or the id of no node.
GradeIds == IdsOf(bankData) \cup {NoNode}
ChapterIds == IdsOf(ChildrenOf(bankData)) \cup {NoNode}
LessonIds == IdsOf(ChildrenOf(ChildrenOf(bankData))) \cup {NoNode}

\* Nothing has been stored and no function has been called.
ServiceInit ==
    /\ pc = "service"
    /\ text = <<>>
    /\ cleanText = <<>>
    /\ segments = <<>>
    /\ blocks = <<>>
    /\ scanIndex = 1
    /\ args = <<>>
    /\ macro = "none"
    /\ AppIdle

\* addNewNode(parentId, type, title); pc is the value it returned and args
\* the id it was given.
AddNewNodeCall(parentId, type, title) ==
    /\ Len(Flatten(bankData)) < Len(Flatten(DEFAULT_STRUCTURE)) + MaxNodes
    /\ bankData' = AddNewNode(bankData, parentId, type, title, Stamp(now))
    /\ pc' = IF Holds(bankData, parentId) THEN "true" ELSE "false"
    /\ args' = <<parentId>>
    /\ text' = <<>>
    /\ UNCHANGED <<cleanText, segments, scanIndex, blocks, macro>>
    /\ UNCHANGED <<addingToNodeId, editingNodeId, now>>
    /\ UNCHANGED <<appVars, docVars, importStatus, exportVars, saveVars>>

\* deleteNode(nodeId); pc is the value it returned and args the id it was
\* given.
DeleteNodeCall(nodeId) ==
    /\ bankData' = DeleteNode(bankData, nodeId)
    /\ pc' = IF Holds(bankData, nodeId) THEN "true" ELSE "false"
    /\ args' = <<nodeId>>
    /\ text' = <<>>
    /\ UNCHANGED <<cleanText, segments, scanIndex, blocks, macro>>
    /\ UNCHANGED <<addingToNodeId, editingNodeId, now>>
    /\ UNCHANGED <<appVars, docVars, importStatus, exportVars, saveVars>>

\* saveToBank(gradeId, chapterId, lessonId, content); pc is the value it
\* returned, args the ids and text the content it was given.
SaveToBankCall(gradeId, chapterId, lessonId, content) ==
    /\ Len(QuestionsOf(Flatten(bankData))) < MaxSaved
    /\ LET saved == SaveToBank(bankData, gradeId, chapterId, lessonId, content, now)
       IN  /\ bankData' = saved.data
           /\ pc' = IF saved.ok THEN "true" ELSE "false"
    /\ args' = <<gradeId, chapterId, lessonId>>
    /\ text' = content
    /\ UNCHANGED <<cleanText, segments, scanIndex, blocks, macro>>
    /\ UNCHANGED <<addingToNodeId, editingNodeId, now>>
    /\ UNCHANGED <<appVars, docVars, importStatus, exportVars, saveVars>>

ServiceNext ==
    \/ \E parentId \in ServiceIds, type \in {"chapter", "lesson"}, title \in Titles :
           AddNewNodeCall(parentId, type, title)
    \/ \E nodeId \in ServiceIds : DeleteNodeCall(nodeId)
    \/ \E gradeId \in GradeIds, chapterId \in ChapterIds, lessonId \in LessonIds,
          content \in ServiceContents :
           SaveToBankCall(gradeId, chapterId, lessonId, content)

ServiceSpec == ServiceInit /\ [][ServiceNext]_vars

\* The last of the questions of the lesson at the places g, c and l.
LastQuestion(data, g, c, l) ==
    LET questions == data[g].children[c].children[l].questions
    IN  questions[Len(questions)]

\* data is what after was before one question of this content was put at the
\* end of the list of a lesson that the three ids lead to.
OneAppended(data, after, gradeId, chapterId, lessonId, content) ==
    \E g \in DOMAIN data :
        /\ data[g].id = gradeId
        /\ \E c \in DOMAIN data[g].children :
               /\ data[g].children[c].id = chapterId
               /\ \E l \in DOMAIN data[g].children[c].children :
                      /\ data[g].children[c].children[l].id = lessonId
                      /\ after[g].children[c].children[l].questions # <<>>
                      /\ LastQuestion(after, g, c, l).content = content
                      /\ after = [data EXCEPT
                             ![g].children[c].children[l].questions =
                                 Append(@, LastQuestion(after, g, c, l))]

\* C29: saveToBank returns false and leaves the stored tree as it was when
\* the three ids do not lead to a lesson; when it returns true, one question
\* of the given content has been put at the end of the list of that lesson
\* and nothing else of the stored tree has changed.
C29_SaveToBankFrame ==
    [][Len(args') = 3 =>
          IF PathExists(bankData, args'[1], args'[2], args'[3])
          THEN /\ pc' = "true"
               /\ OneAppended(bankData, bankData', args'[1], args'[2], args'[3], text')
          ELSE /\ pc' = "false"
               /\ bankData' = bankData]_vars

\* A question has been stored in one of two lessons of the same id, after a
\* call that returned false.
C29_Witness ==
    /\ pc = "true"
    /\ Len(args) = 3
    /\ \E node \in NodesOf(bankData) :
           \E k, l \in DOMAIN node.children :
               /\ k < l
               /\ node.children[k].id = node.children[l].id
               /\ Len(node.children[k].questions) = 2
               /\ node.children[l].questions = <<>>

============================================================================
